---- MODULE Spec2Model ----
(***************************************************************************)
(* Training loops of pgtorch (src/proj/algorithms): trpo with its          *)
(* backtracking line search, vanilla, tnpg and natural, together with the  *)
(* snapshot store they save into.                                          *)
(*                                                                         *)
(* Numbers.  Python floats are modelled as extended fixed-point values:    *)
(* a record [k, v] that is a finite integer multiple of a unit, +/-inf or  *)
(* NaN, with the IEEE-754 rules for arithmetic and comparison.  Units:     *)
(*   losses, improvements, pol_grad.dot(step) : 1e-8                       *)
(*   policy parameters                        : 1 / ParamScale             *)
(*   descent_direction, scale, descent_step   : 1                          *)
(*   KL divergences and delta                 : 1                          *)
(* ParamScale = ratio_den^(max_backtracks-1), so that every candidate      *)
(* x0 - backtrack_ratio^k * dx is an exact integer multiple of the unit.   *)
(***************************************************************************)
EXTENDS Integers, Sequences, FiniteSets, TLC

\* ------------------------------------------------------------------------
\* Bounds of the model
\* ------------------------------------------------------------------------
Dim == 1
NObs == 5
MaxIter == 2
batch == 5
n_envs == 2
max_backtracks == 5
cg_iters == 2
MaxT == 3
MaxArgs == 3
MaxKvs == 3

\* ------------------------------------------------------------------------
\* Program constants
\* ------------------------------------------------------------------------
accept_num == 1
accept_den == 10
ratio_num == 4
ratio_den == 5
atol == 10
val_iters == 80
inv_eps == 100000000
trunc_keep == 20
trunc_max == 23
g_digits == 5

\* ------------------------------------------------------------------------
\* Extended (IEEE-754 like) values
\* ------------------------------------------------------------------------
Fin(n) == [k |-> "fin", v |-> n]
NaN == [k |-> "nan", v |-> 0]
PInf == [k |-> "inf", v |-> 1]
NInf == [k |-> "inf", v |-> -1]

IsFin(a) == a.k = "fin"
IsNaN(a) == a.k = "nan"

Sgn(n) == IF n > 0 THEN 1 ELSE IF n < 0 THEN -1 ELSE 0

XNeg(a) == IF IsNaN(a) THEN NaN ELSE [k |-> a.k, v |-> 0 - a.v]

XAdd(a, b) ==
    IF IsNaN(a) \/ IsNaN(b) THEN NaN
    ELSE IF IsFin(a) /\ IsFin(b) THEN Fin(a.v + b.v)
    ELSE IF IsFin(a) THEN b
    ELSE IF IsFin(b) THEN a
    ELSE IF a.v = b.v THEN a
    ELSE NaN

XSub(a, b) == XAdd(a, XNeg(b))

XMul(a, b) ==
    IF IsNaN(a) \/ IsNaN(b) THEN NaN
    ELSE IF IsFin(a) /\ IsFin(b) THEN Fin(a.v * b.v)
    ELSE IF Sgn(a.v) * Sgn(b.v) = 0 THEN NaN
    ELSE IF Sgn(a.v) * Sgn(b.v) > 0 THEN PInf
    ELSE NInf

\* a >= b; every comparison with NaN is false
XGe(a, b) ==
    IF IsNaN(a) \/ IsNaN(b) THEN FALSE
    ELSE IF IsFin(a) /\ IsFin(b) THEN a.v >= b.v
    ELSE IF IsFin(a) THEN b.v < 0
    ELSE IF IsFin(b) THEN a.v > 0
    ELSE a.v >= b.v

\* a < b; every comparison with NaN is false
XLt(a, b) == ~IsNaN(a) /\ ~IsNaN(b) /\ ~XGe(a, b)

\* a / b of two Python floats with b # 0: a finite quotient is kept as the
\* exact fraction v / d
XQuot(a, b) ==
    IF IsNaN(a) \/ IsNaN(b) THEN NaN
    ELSE IF IsFin(a) /\ IsFin(b) THEN [k |-> "rat", v |-> a.v, d |-> b.v]
    ELSE IF IsFin(b) THEN (IF Sgn(a.v) * Sgn(b.v) >= 0 THEN PInf ELSE NInf)
    ELSE IF IsFin(a) THEN Fin(0)
    ELSE NaN

RECURSIVE Pow(_, _)
Pow(b, e) == IF e = 0 THEN 1 ELSE b * Pow(b, e - 1)

RECURSIVE Isqrt(_)
Isqrt(n) == IF n < 1 THEN 0
            ELSE LET r == 2 * Isqrt(n \div 4)
                 IN IF (r + 1) * (r + 1) <= n THEN r + 1 ELSE r


\* ------------------------------------------------------------------------
\* Vectors (flat parameter vectors, gradients, steps)
\* ------------------------------------------------------------------------
Idx == 1..Dim

AllFin(x) == \A i \in Idx : IsFin(x[i])

ZeroVec == [i \in Idx |-> Fin(0)]

\* parameters of a freshly constructed policy
InitParams == [i \in Idx |-> Fin(0)]

RECURSIVE DotUpTo(_, _, _)
DotUpTo(g, dx, n) ==
    IF n = 0 THEN Fin(0)
    ELSE XAdd(DotUpTo(g, dx, n - 1), XMul(g[n], dx[n]))

\* pol_grad.dot(descent_step)
Dot(g, dx) == DotUpTo(g, dx, Dim)

\* ------------------------------------------------------------------------
\* line_search and f_barrier: the pure parts
\* ------------------------------------------------------------------------
ParamScale == Pow(ratio_den, max_backtracks - 1)

\* backtrack_ratio ** exp, in units of 1 / ParamScale
RatioS(exp) == Pow(ratio_num, exp) * Pow(ratio_den, max_backtracks - 1 - exp)

RECURSIVE SumRatioS(_)
SumRatioS(exp) == IF exp = 0 THEN RatioS(0) ELSE RatioS(exp) + SumRatioS(exp - 1)

\* mutant: each trial subtracts its step from the parameters the previous
\* trial left in the policy
Candidate_cum(x0, exp, dx) ==
    [i \in Idx |-> XSub(x0[i], XMul(Fin(SumRatioS(exp)), dx[i]))]

\* x = x0 - ratio * dx
Candidate(x0, exp, dx) ==
    [i \in Idx |-> XSub(x0[i], XMul(Fin(RatioS(exp)), dx[i]))]

\* mutant: the threshold is not scaled by the backtrack ratio
Armijo_noratio(actual, ei, exp) ==
    XGe(XMul(actual, Fin(accept_den)), XMul(ei, Fin(accept_num)))

\* actual_improvement >= expected_improvement * ratio * accept_ratio
Armijo(actual, ei, exp) ==
    XGe(XMul(actual, Fin(accept_den * ParamScale)),
        XMul(ei, Fin(RatioS(exp) * accept_num)))

\* mutant: the KL ceiling is not applied
f_barrier_nokl(loss, kl, dl) == loss

\* value returned by f_barrier for a trial whose surrogate loss is loss and
\* whose mean KL to old_dists is kl
f_barrier(loss, kl, dl) == IF XLt(kl, Fin(dl)) THEN loss ELSE PInf

\* mutant: the search is entered only for an expected improvement of at
\* least 5 * atol
WorthSearching_strict(ei) == XGe(ei, Fin(5 * atol))

\* expected_improvement >= atol
WorthSearching(ei) == XGe(ei, Fin(atol))

\* scale = sqrt(2 * delta * (1 / dFd + 1e-8)); the 1e-8 term is below the
\* unit of the fixed-point values unless 1 / dFd is zero or infinite
ScaleOf(dl, c) ==
    IF IsNaN(c) THEN NaN
    ELSE IF ~IsFin(c) THEN Fin(0)
    ELSE IF c.v = 0 THEN (IF dl = 0 THEN NaN ELSE PInf)
    ELSE IF dl = 0 THEN Fin(0)
    ELSE IF c.v < 0 THEN NaN
    ELSE Fin(Isqrt((2 * dl) \div c.v))

\* descent_step = descent_direction * scale
StepOf(d, sc) == [i \in Idx |-> XMul(d[i], sc)]

\* mutant: the whole batch argument is counted for every iteration
TotalNSamples_batch(u) == (u + 1) * batch

\* (updt+1) * (batch - (batch % n_envs))
TotalNSamples(u) == (u + 1) * (batch - (batch % n_envs))

\* n_samples = int(kl_frac * len(all_obs))
NSamples(kf, n) == (kf.num * n) \div kf.den

\* mutant: every call of F_0 draws a subsample of its own
F_0_obs_redraw(sub, all) ==
    {o \in SUBSET all : Cardinality(o) = Cardinality(sub)}

\* observations a call of F_0 may evaluate the Fisher-vector product on:
\* the closure reads the iteration's subsamp_obs
F_0_obs(sub, all) == {sub}

\* the subsamples the calls of F_0 made by conjugate_gradient can use
CgObs(sub, all) ==
    {u \in SUBSET F_0_obs(sub, all) : u # {} /\ Cardinality(u) <= cg_iters}

\* indexes = torch.randperm(len(all_obs))[:n_samples]
Subsamples(kf, all) ==
    IF kf.num < kf.den
    THEN {sub \in SUBSET all : Cardinality(sub) = NSamples(kf, Cardinality(all))}
    ELSE {all}

\* ------------------------------------------------------------------------
\* Inputs: configurations and the results of the collaborators whose code
\* is outside the modelled files (sampling, the policy network, the
\* conjugate-gradient solver, the optimizers)
\* ------------------------------------------------------------------------
Algs == {"trpo", "vanilla", "tnpg", "natural"}

StepsVals == {batch - 1, batch, MaxIter * batch + 1}
DeltaVals == {0, 2}
KlFracVals == {[num |-> 1, den |-> 5], [num |-> 1, den |-> 1]}

\* interval between snapshots the saver is made with
IntervalVals == {1, 2}

\* a saver with an interval above 1 is drawn for one configuration of
\* trpo, to keep the state count down
TrpoCfgs ==
    {c \in {[alg |-> "trpo", steps |-> s, n_iter |-> 0, last_iter |-> -1,
              linesearch |-> l, delta |-> dl, kl_frac |-> kf, saver |-> sv,
              interval |-> iv] :
                s \in StepsVals, l \in BOOLEAN, dl \in DeltaVals,
                kf \in KlFracVals, sv \in BOOLEAN, iv \in IntervalVals} :
        (c.interval > 1) =>
            /\ c.saver
            /\ ~c.linesearch
            /\ c.delta = 2
            /\ c.kl_frac.num = c.kl_frac.den
            /\ c.steps = MaxIter * batch + 1}

OtherCfgs ==
    {c \in {[alg |-> a, steps |-> 0, n_iter |-> n, last_iter |-> -1,
              linesearch |-> FALSE, delta |-> 2, kl_frac |-> kf,
              saver |-> sv, interval |-> iv] :
                a \in Algs \ {"trpo"}, n \in 0..MaxIter, sv \in BOOLEAN,
                kf \in KlFracVals, iv \in IntervalVals} :
        /\ (c.alg = "vanilla") => (c.kl_frac.num = c.kl_frac.den)
        /\ (c.interval > 1) => c.saver}

\* surr_loss.item() at the current parameters
Y0Vals == {Fin(5), PInf, NaN}
\* surr_loss.item() of a trial
LossVals == {Fin(0), Fin(2), Fin(3), Fin(5), NInf, NaN}
\* kl(old_dists, new_dists).mean().item() of changed parameters
KLVals == {Fin(1), Fin(2), Fin(3), NaN}
\* flat_grad(surr_loss, policy.parameters())
GradVecs == {[i \in Idx |-> Fin(v)] : v \in {0, 2, 20}}
\* conjugate_gradient(F_0, pol_grad)
DirVecs == {[i \in Idx |-> Fin(v)] : v \in {0, 1}}
\* conjugate_gradient(F_0, pol_grad) of trpo: a direction against the
\* gradient as well, for which the expected improvement is negative
CgVecs == DirVecs \cup {[i \in Idx |-> Fin(-1)]}
\* the direction against the gradient is drawn for one gradient and one
\* curvature
CgPair(g, d, c) ==
    (d \notin DirVecs) => (g = [i \in Idx |-> Fin(2)] /\ c = Fin(1))
\* descent_direction.dot(F_0(descent_direction))
CurvVals == {Fin(0), Fin(1)}
\* change of the parameters made by one optimizer.step() of the policy
OptimSteps == {[i \in Idx |-> Fin(v * ParamScale)] : v \in {1, 2}}

\* what the policy network yields at parameters x, given that the snapshot
\* old_dists was taken at parameters x0 where the surrogate loss is y0:
\* <<surrogate loss, mean KL to old_dists>>
Outcomes(x, x0, y0) ==
    IF ~AllFin(x) THEN {<<NaN, NaN>>}
    ELSE IF x = x0 THEN {<<y0, Fin(0)>>}
    ELSE LossVals \X KLVals

\* ------------------------------------------------------------------------
\* Logger and snapshot store
\* ------------------------------------------------------------------------
EmptyKV == [k \in {} |-> NaN]

\* Logger.logkv: self.name2val[key] = val
LogKV(m, key, val) ==
    [k \in (DOMAIN m) \cup {key} |-> IF k = key THEN val ELSE m[k]]

\* the three logkv calls of line_search for an accepted trial, in the exact
\* values of this model; eir is expected_improvement * ratio in units of
\* 1 / ParamScale. The ratio is logged as the division it is, numerator
\* and denominator; the float the division yields is computed where
\* line_search is modelled on Python floats (RecordAccepted)
AcceptedKvs(kv, eir, actual) ==
    LogKV(LogKV(LogKV(kv,
        "ExpectedImprovement", XQuot(eir, Fin(ParamScale))),
        "ActualImprovement", actual),
        "ImprovementRatio", XQuot(XMul(actual, Fin(ParamScale)), eir))

\* saver.save_state(index, state)
SaveState(store, index, state) ==
    [k \in (DOMAIN store) \cup {index} |-> IF k = index THEN state ELSE store[k]]

\* number of positional parameters of logger.get_state
get_state_params == 0

RECURSIVE MaxOf(_)
MaxOf(S) == LET x == CHOOSE y \in S : TRUE
            IN IF S = {x} THEN x
               ELSE LET m == MaxOf(S \ {x}) IN IF x > m THEN x ELSE m

None == [k |-> "none", v |-> 0]
NoVec == <<>>
NoLs == [x0 |-> NoVec, dx |-> NoVec, ei |-> None, y0 |-> None, exp |-> 0,
         skipped |-> FALSE]
NoProbe == [set |-> FALSE, loss |-> None, kl |-> None]
NoScale == [set |-> FALSE, dFd |-> None, s |-> None]
NoRollout == [r |-> <<>>, v |-> <<>>, done |-> <<>>,
              gamma |-> [num |-> 0, den |-> 1], lam |-> [num |-> 0, den |-> 1]]
NoFvp == [obs |-> {}, cg |-> {}, at |-> NoVec, n |-> 0]
NoResume == [set |-> FALSE, completed |-> -1, policy |-> NoVec, baseline |-> 0,
             pol_optim |-> 0, val_optim |-> 0]

\* ------------------------------------------------------------------------
\* State
\* ------------------------------------------------------------------------
VARIABLES
    cfg,           \* arguments of the training function; saver: the logger
                   \* has a path (trpo, vanilla), snapshot_saver is given
                   \* (tnpg, natural)
    pc,            \* position in the training function
    updt,          \* loop variable of the main loop
    policy,        \* flat parameter vector of the policy
    baseline,      \* parameters of the baseline (number of fitting steps)
    val_optim,     \* state of the baseline's optimizer (steps taken)
    pol_optim,     \* state of the policy's optimizer (steps taken)
    all_obs,       \* observations of the iteration's batch
    subsamp_obs,   \* observations used by the Fisher-vector product
    old_dists,     \* parameters at which old_dists was detached
    surr_loss,     \* surrogate loss at the start of the update
    pol_grad,      \* gradient of the surrogate loss
    descent_step,  \* scaled conjugate-gradient direction
    scale,         \* curvature d.F_0(d) and the scale computed from it
    ls,            \* locals of line_search
    new_params,    \* vector handed to the final vector_to_parameters
    name2val,      \* Logger.name2val
    dumped,        \* key-values written by the last dumpkvs
    saved,         \* snapshot store: index -> state
    avg_kl,        \* mean KL from old_dists to the policy's distributions
    fvp,           \* observations and snapshot F_0 was evaluated on
    klobs,         \* observations and snapshot f_barrier's KL was evaluated on
    evals,         \* candidates f was evaluated at, in order
    probe,         \* what f would yield at the full step when none is tried
    x0start,       \* policy parameters when the iteration started
    b0start,       \* baseline parameters when the iteration started
    nonfin,        \* a non-finite quantity entered the update
    trace,         \* phases entered by this run, in order
    iters_run,     \* iterations started by this run
    resumed,       \* snapshot this run was resumed from
    err,           \* exception that ended the run
    rollout,       \* advantage estimation: rewards, values, dones, gamma, lambda
    adv,           \* advantage estimation: advantages computed so far
    gae_t,         \* advantage estimation: next timestep of the backward walk
    args,          \* run.py: the command-line arguments after the command
    arg_i,         \* run.py: number of arguments the first pass has handled
    arg_key,       \* run.py: arg_key of the first pass
    arg_dict,      \* run.py: arg_dict, flag name -> list of values
    parse_pc,      \* run.py: position in parse_and_execute_grid_search
    run_kwargs,    \* run.py: run_kwargs
    exp_name,      \* run.py: exp_name
    output_formats,\* Logger.output_formats, in order
    od_name2val,   \* Logger.name2val as the OrderedDict it is: <<[key, val]>>
    written,       \* what the last dumpkvs wrote to each output format
    since,         \* the logkv calls made since the last dumpkvs
    log_pc,        \* logger: "run", or "raised" once a call has raised
    CURRENT,       \* session: Logger.CURRENT, as the number of the Logger
    sess_loggers,  \* session: the Loggers constructed so far, DEFAULT first
    blocks,        \* session: Loggers made by the with-blocks now active
    acted,         \* session: Logger the module-level call just made acted on
    sess_pc,       \* session: "run", or "raised" while a call's exception unwinds
    ptr,           \* ReplayBuffer.ptr
    size,          \* ReplayBuffer.size
    max_size,      \* ReplayBuffer.max_size
    all_data,      \* ReplayBuffer.all_obs1 .. all_dones, one row per slot
    tags,          \* replay: number of the store call that last wrote each slot
    stored,        \* replay: the transitions handed to store, in order
    dataset,       \* replay: rows of the dataset the last sampler call built
    rb_pc,         \* replay: "run" while a buffer exists
    kw_policy,     \* caller's mapping passed as policy
    kw_baseline,   \* caller's mapping passed as baseline
    kw_optimizer,  \* caller's mapping passed as optimizer
    kw_q_func,     \* caller's mapping passed as q_func
    call_path,     \* calls: Logger.CURRENT was made with a path
    vanilla_defaults, \* the mapping object that is vanilla's default optimizer
    call_log,      \* calls made so far: arguments before and after, outcome
    call_pc,       \* calls: "run" while calls are being made
    search_ei,     \* line_search on floats: expected_improvement
    search_y0,     \* line_search on floats: y0
    search_exp,    \* line_search on floats: exp of the loop
    search_calls,  \* line_search on floats: calls of f made so far
    search_log,    \* line_search on floats: the logkv calls made, in order
    search_ret,    \* line_search on floats: what was returned, x or x0
    search_pc      \* line_search on floats: position in the function

models == <<policy, baseline, val_optim, pol_optim>>
batchv == <<all_obs, subsamp_obs, old_dists, surr_loss, pol_grad, descent_step, scale>>
lsv == <<ls, new_params, evals, probe>>
logv == <<name2val, dumped>>
runv == <<cfg, updt, iters_run, resumed, err>>
ghostv == <<avg_kl, fvp, klobs, x0start, b0start, nonfin>>

mainv == <<cfg, pc, updt, policy, baseline, val_optim, pol_optim, all_obs,
          subsamp_obs, old_dists, surr_loss, pol_grad, descent_step, scale, ls,
          new_params, name2val, dumped, saved, avg_kl, fvp, klobs, evals,
          probe, x0start, b0start, nonfin, trace, iters_run, resumed, err>>
gaev == <<rollout, adv, gae_t>>
\* state of the components that are modelled on their own
parsev == <<args, arg_i, arg_key, arg_dict, parse_pc, run_kwargs, exp_name>>
loggerv == <<output_formats, od_name2val, written, since, log_pc>>
sessionv == <<CURRENT, sess_loggers, blocks, acted, sess_pc>>
replayv == <<ptr, size, max_size, all_data, tags, stored, dataset, rb_pc>>
callv == <<kw_policy, kw_baseline, kw_optimizer, kw_q_func, call_path,
           vanilla_defaults, call_log, call_pc>>
searchv == <<search_ei, search_y0, search_exp, search_calls, search_log,
             search_ret, search_pc>>
latev == <<sessionv, replayv, callv, searchv>>
purev == <<gaev, parsev, loggerv, latev>>

vars == <<mainv, purev>>

\* mutant: the exception is swallowed and the loop body goes on
Propagate_swallowed(e, cont) == pc' = cont /\ err' = e

\* an exception raised by a call in the loop body: no try/except encloses
\* the call, so it leaves the training function
Propagate(e, cont) == pc' = "raised" /\ err' = e

\* Logger.CURRENT.saver.save_state(index, state) in trpo and vanilla,
\* snapshot_saver.save_state(index, state) in tnpg and natural: the store
\* after the call and whether the call raised. The saver of a logger
\* without a path is a Nop. A SnapshotSaver is made with the keyword
\* arguments of its caller, among them the interval between snapshots:
\* with an interval above 1 a call that returns has stored the state under
\* the index or, for an index the interval skips, has stored nothing
SaveCall(store, has_saver, interval, index, state) ==
    IF has_saver
    THEN {[store |-> SaveState(store, index, state), raised |-> FALSE],
          [store |-> store, raised |-> TRUE]}
         \cup (IF interval > 1 THEN {[store |-> store, raised |-> FALSE]}
               ELSE {})
    ELSE {[store |-> store, raised |-> FALSE]}

\* logger.save_config(locals()): Logger.save_config opens
\* os.path.join(self.path, "variant.json"), which raises TypeError when the
\* logger was made without a path
SaveConfigRaises(has_path) == ~has_path

\* the call returns and the loop body goes on
Proceed(cont) == pc' = cont /\ err' = err

Enter(tr, ph) ==
    IF Len(tr) > 0 /\ tr[Len(tr)] = ph THEN tr ELSE Append(tr, ph)

\* the iteration's batch and everything derived from it is dropped
DropBatch ==
    /\ all_obs' = {}
    /\ subsamp_obs' = {}
    /\ old_dists' = NoVec
    /\ surr_loss' = None
    /\ pol_grad' = NoVec
    /\ descent_step' = NoVec
    /\ scale' = NoScale
    /\ avg_kl' = None
    /\ fvp' = NoFvp
    /\ klobs' = NoFvp
    /\ nonfin' = FALSE

\* the state when a training function is called with arguments c, at
\* position p
MainStart(c, p) ==
    /\ cfg = c
    /\ pc = p
    /\ updt = -1
    /\ policy = InitParams
    /\ baseline = 0
    /\ val_optim = 0
    /\ pol_optim = 0
    /\ all_obs = {}
    /\ subsamp_obs = {}
    /\ old_dists = NoVec
    /\ surr_loss = None
    /\ pol_grad = NoVec
    /\ descent_step = NoVec
    /\ scale = NoScale
    /\ ls = NoLs
    /\ new_params = NoVec
    /\ name2val = EmptyKV
    /\ dumped = EmptyKV
    /\ saved = [k \in {} |-> 0]
    /\ avg_kl = None
    /\ fvp = NoFvp
    /\ klobs = NoFvp
    /\ evals = <<>>
    /\ probe = NoProbe
    /\ x0start = NoVec
    /\ b0start = 0
    /\ nonfin = FALSE
    /\ trace = <<>>
    /\ iters_run = 0
    /\ resumed = NoResume
    /\ err = "none"

\* the advantage estimator is not running
GaeIdle ==
    /\ rollout = NoRollout
    /\ adv = <<>>
    /\ gae_t = 0

\* parse_and_execute_grid_search is not running
ParseIdle ==
    /\ args = <<>>
    /\ arg_i = 0
    /\ arg_key = <<>>
    /\ arg_dict = <<>>
    /\ run_kwargs = <<>>
    /\ exp_name = <<>>
    /\ parse_pc = "idle"

\* the logger of the diagnostics is modelled on its own
LoggerIdle ==
    /\ output_formats = <<>>
    /\ od_name2val = <<>>
    /\ written = <<>>
    /\ since = <<>>
    /\ log_pc = "idle"

\* no logger session has been opened
SessionIdle ==
    /\ CURRENT = 0
    /\ sess_loggers = <<>>
    /\ blocks = <<>>
    /\ acted = 0
    /\ sess_pc = "idle"

\* no replay buffer has been constructed
ReplayIdle ==
    /\ ptr = 0
    /\ size = 0
    /\ max_size = 0
    /\ all_data = <<>>
    /\ tags = <<>>
    /\ stored = <<>>
    /\ dataset = <<>>
    /\ rb_pc = "idle"

\* no training function is being constructed from mappings
CallIdle ==
    /\ kw_policy = <<>>
    /\ kw_baseline = <<>>
    /\ kw_optimizer = <<>>
    /\ kw_q_func = <<>>
    /\ call_path = FALSE
    /\ vanilla_defaults = <<>>
    /\ call_log = <<>>
    /\ call_pc = "idle"

\* line_search is not run on floats
SearchIdle ==
    /\ search_ei = 0
    /\ search_y0 = 0
    /\ search_exp = 0
    /\ search_calls = 0
    /\ search_log = <<>>
    /\ search_ret = "none"
    /\ search_pc = "idle"

LateIdle == SessionIdle /\ ReplayIdle /\ CallIdle /\ SearchIdle

Init ==
    /\ \E c \in TrpoCfgs \cup OtherCfgs :
          MainStart(c, IF c.alg = "tnpg" THEN "loop" ELSE "start")
    /\ GaeIdle
    /\ ParseIdle
    /\ LoggerIdle
    /\ LateIdle

\* ------------------------------------------------------------------------
\* Main loop, shared shape of the four training functions
\* ------------------------------------------------------------------------

\* trange(steps // batch) in trpo, trange(last_iter + 1, n_iter) elsewhere
RangeStart(c) == IF c.alg = "trpo" THEN 0 ELSE c.last_iter + 1

RangeStop(c) == IF c.alg = "trpo" THEN c.steps \div batch ELSE c.n_iter

\* for updt in trange(...): logger.logkv("Iteration", updt)
LoopNext ==
    /\ UNCHANGED purev
    /\ pc = "loop"
    /\ LET nxt == IF iters_run = 0 THEN RangeStart(cfg) ELSE updt + 1
       IN IF nxt < RangeStop(cfg)
          THEN /\ updt' = nxt
               /\ iters_run' = iters_run + 1
               /\ name2val' = LogKV(name2val, "Iteration", Fin(nxt))
               /\ x0start' = policy
               /\ b0start' = baseline
               /\ pc' = "collect"
          ELSE /\ pc' = "done"
               /\ UNCHANGED <<updt, iters_run, name2val, x0start, b0start>>
    /\ UNCHANGED <<cfg, resumed, err, models, batchv, lsv, dumped, saved,
                   avg_kl, fvp, klobs, nonfin, trace>>

\* buffer = parallel_collect_samples(env_pool, policy, batch)
Collect ==
    /\ UNCHANGED purev
    /\ pc = "collect"
    /\ trace' = Enter(trace, "collect")
    /\ \E ok \in BOOLEAN :
          IF ok THEN Proceed("compute")
          ELSE Propagate("CollectError", "compute")
    /\ UNCHANGED <<cfg, updt, iters_run, resumed, models, batchv, lsv, logv,
                   saved, ghostv>>

\* all_obs, all_acts, all_advs = compute_pg_vars(buffer, policy, ...)
ComputePgVars ==
    /\ UNCHANGED purev
    /\ pc = "compute"
    /\ trace' = Enter(trace, "compute")
    /\ \E ok \in BOOLEAN :
          IF ok
          THEN /\ all_obs' = 1..NObs
               /\ Proceed(IF cfg.alg = "trpo" THEN "subsample" ELSE "update")
          ELSE /\ all_obs' = all_obs
               /\ Propagate("ComputeError", "update")
    /\ UNCHANGED <<cfg, updt, iters_run, resumed, models, subsamp_obs, old_dists, surr_loss, pol_grad,
                   descent_step, scale, lsv, logv, saved, ghostv>>

\* ------------------------------------------------------------------------
\* trpo
\* ------------------------------------------------------------------------

\* policy = policy.pop('class')(env, **policy) ... loss_fn = MSELoss()
TrpoSetup ==
    /\ UNCHANGED purev
    /\ pc = "start"
    /\ cfg.alg = "trpo"
    /\ IF SaveConfigRaises(cfg.saver)
       THEN /\ Propagate("ConfigTypeError", "loop")
            /\ UNCHANGED <<policy, baseline, val_optim>>
       ELSE /\ policy' = InitParams
            /\ baseline' = 0
            /\ val_optim' = 0
            /\ Proceed("loop")
    /\ UNCHANGED <<cfg, updt, iters_run, resumed, pol_optim, batchv, lsv, logv,
                   saved, ghostv, trace>>

\* subsample for fisher vector product computation
TrpoSubsample ==
    /\ UNCHANGED purev
    /\ pc = "subsample"
    /\ \E sub \in Subsamples(cfg.kl_frac, all_obs) : subsamp_obs' = sub
    /\ pc' = "polgrad"
    /\ UNCHANGED <<runv, models, all_obs, old_dists, surr_loss, pol_grad,
                   descent_step, scale, lsv, logv, saved, ghostv, trace>>

\* new_dists, old_dists, surr_loss, pol_grad
TrpoPolicyGradient ==
    /\ UNCHANGED purev
    /\ pc = "polgrad"
    /\ old_dists' = policy
    /\ avg_kl' = Fin(0)
    /\ \E y0 \in Y0Vals : surr_loss' = y0
    /\ \E g \in GradVecs : pol_grad' = g
    /\ pc' = "natgrad"
    /\ UNCHANGED <<runv, models, all_obs, subsamp_obs, descent_step, scale, lsv,
                   logv, saved, fvp, klobs, x0start, b0start, nonfin, trace>>

\* mutant: the Fisher-vector products leave the policy moved along the
\* direction they were evaluated for
TrpoNaturalGradient_moves ==
    /\ UNCHANGED purev
    /\ pc = "natgrad"
    /\ \E d \in CgVecs, c \in CurvVals :
          /\ (pol_grad = ZeroVec) => (d = ZeroVec)
          /\ (d = ZeroVec) => (c = Fin(0))
          /\ CgPair(pol_grad, d, c)
          /\ descent_step' = StepOf(d, ScaleOf(cfg.delta, c))
          /\ scale' = [set |-> TRUE, dFd |-> c, s |-> ScaleOf(cfg.delta, c)]
          /\ policy' = [i \in Idx |-> XSub(policy[i], XMul(Fin(ParamScale), d[i]))]
    /\ \E u \in CgObs(subsamp_obs, all_obs), o \in F_0_obs(subsamp_obs, all_obs) :
          fvp' = [obs |-> o, cg |-> u, at |-> policy, n |-> cg_iters + 1]
    /\ pc' = IF cfg.linesearch THEN "ls_begin" ELSE "nols"
    /\ UNCHANGED <<runv, baseline, val_optim, pol_optim, all_obs, subsamp_obs, old_dists, surr_loss,
                   pol_grad, lsv, logv, saved, avg_kl, klobs, x0start, b0start, nonfin,
                   trace>>

\* F_0, descent_direction, scale, descent_step; the solver returns its
\* zero start vector for a zero gradient, and F_0 is linear
TrpoNaturalGradient ==
    /\ UNCHANGED purev
    /\ pc = "natgrad"
    /\ \E d \in CgVecs, c \in CurvVals :
          /\ (pol_grad = ZeroVec) => (d = ZeroVec)
          /\ (d = ZeroVec) => (c = Fin(0))
          /\ CgPair(pol_grad, d, c)
          /\ descent_step' = StepOf(d, ScaleOf(cfg.delta, c))
          /\ scale' = [set |-> TRUE, dFd |-> c, s |-> ScaleOf(cfg.delta, c)]
    /\ \E u \in CgObs(subsamp_obs, all_obs), o \in F_0_obs(subsamp_obs, all_obs) :
          fvp' = [obs |-> o, cg |-> u, at |-> policy, n |-> cg_iters + 1]
    /\ pc' = IF cfg.linesearch THEN "ls_begin" ELSE "nols"
    /\ UNCHANGED <<runv, models, all_obs, subsamp_obs, old_dists, surr_loss,
                   pol_grad, lsv, logv, saved, avg_kl, klobs, x0start, b0start, nonfin,
                   trace>>

\* mutant: the loop is entered whatever the expected improvement is
LineSearchBegin_always ==
    /\ UNCHANGED purev
    /\ pc = "ls_begin"
    /\ LET ei == Dot(pol_grad, descent_step)
           x0 == policy
           go == max_backtracks > 0
       IN /\ ls' = [x0 |-> x0, dx |-> descent_step, ei |-> ei,
                    y0 |-> surr_loss, exp |-> 0, skipped |-> ~go]
          /\ pc' = IF go THEN "ls_trial" ELSE "ls_reject"
          /\ nonfin' = (~IsFin(ei) \/ ~AllFin(descent_step) \/ ~IsFin(surr_loss))
          /\ IF go THEN probe' = NoProbe
             ELSE \E o \in Outcomes(Candidate(x0, 0, descent_step), x0, surr_loss) :
                     probe' = [set |-> TRUE, loss |-> o[1], kl |-> o[2]]
    /\ evals' = <<>>
    /\ trace' = Enter(trace, "update")
    /\ UNCHANGED <<runv, models, batchv, new_params, logv, saved, avg_kl, fvp,
                   klobs, x0start, b0start>>

\* expected_improvement = pol_grad.dot(descent_step).item(); the call of
\* line_search up to `if expected_improvement >= atol`
LineSearchBegin ==
    /\ UNCHANGED purev
    /\ pc = "ls_begin"
    /\ LET ei == Dot(pol_grad, descent_step)
           x0 == policy
           go == WorthSearching(ei) /\ max_backtracks > 0
       IN /\ ls' = [x0 |-> x0, dx |-> descent_step, ei |-> ei,
                    y0 |-> surr_loss, exp |-> 0, skipped |-> ~go]
          /\ pc' = IF go THEN "ls_trial" ELSE "ls_reject"
          /\ nonfin' = (~IsFin(ei) \/ ~AllFin(descent_step) \/ ~IsFin(surr_loss))
          /\ IF go THEN probe' = NoProbe
             ELSE \E o \in Outcomes(Candidate(x0, 0, descent_step), x0, surr_loss) :
                     probe' = [set |-> TRUE, loss |-> o[1], kl |-> o[2]]
    /\ evals' = <<>>
    /\ trace' = Enter(trace, "update")
    /\ UNCHANGED <<runv, models, batchv, new_params, logv, saved, avg_kl, fvp,
                   klobs, x0start, b0start>>

\* one pass of `for exp in range(max_backtracks)`, with the call of f_barrier
LineSearchTrial ==
    /\ UNCHANGED purev
    /\ pc = "ls_trial"
    /\ LET x == Candidate(ls.x0, ls.exp, ls.dx)
       IN \E o \in Outcomes(x, old_dists, ls.y0) :
          LET loss == o[1]
              kl == o[2]
              y == f_barrier(loss, kl, cfg.delta)
              actual == XSub(ls.y0, y)
              eir == XMul(ls.ei, Fin(RatioS(ls.exp)))
              both == XLt(kl, Fin(cfg.delta))
                      /\ XGe(XMul(XSub(ls.y0, loss), Fin(accept_den * ParamScale)),
                             XMul(eir, Fin(accept_num)))
          IN /\ policy' = x
             /\ avg_kl' = kl
             /\ klobs' = [obs |-> all_obs, at |-> old_dists, n |-> klobs.n + 1]
             /\ evals' = Append(evals, [exp |-> ls.exp, both |-> both])
             /\ nonfin' = (nonfin \/ ~IsFin(loss) \/ ~IsFin(kl))
             /\ IF Armijo(actual, ls.ei, ls.exp)
                THEN /\ name2val' = AcceptedKvs(name2val, eir, actual)
                     /\ new_params' = x
                     /\ ls' = ls
                     /\ pc' = "commit"
                ELSE /\ ls' = [ls EXCEPT !.exp = ls.exp + 1]
                     /\ pc' = IF ls.exp + 1 < max_backtracks
                              THEN "ls_trial" ELSE "ls_reject"
                     /\ UNCHANGED <<name2val, new_params>>
    /\ UNCHANGED <<runv, baseline, val_optim, pol_optim, batchv, probe, dumped,
                   saved, fvp, x0start, b0start, trace>>

\* mutant: the fall-through returns the last vector tried
LineSearchReject_keeps ==
    /\ UNCHANGED purev
    /\ pc = "ls_reject"
    /\ name2val' = LogKV(LogKV(LogKV(name2val,
                       "ExpectedImprovement", ls.ei),
                       "ActualImprovement", Fin(0)),
                       "ImprovementRatio", Fin(0))
    /\ new_params' = policy
    /\ pc' = "commit"
    /\ UNCHANGED <<runv, models, batchv, ls, evals, probe, dumped, saved,
                   ghostv, trace>>

\* fall-through of line_search: log zero improvement, return x0
LineSearchReject ==
    /\ UNCHANGED purev
    /\ pc = "ls_reject"
    /\ name2val' = LogKV(LogKV(LogKV(name2val,
                       "ExpectedImprovement", ls.ei),
                       "ActualImprovement", Fin(0)),
                       "ImprovementRatio", Fin(0))
    /\ new_params' = ls.x0
    /\ pc' = "commit"
    /\ UNCHANGED <<runv, models, batchv, ls, evals, probe, dumped, saved,
                   ghostv, trace>>

\* new_params = parameters_to_vector(policy.parameters()) - descent_step
TrpoNoLineSearch ==
    /\ UNCHANGED purev
    /\ pc = "nols"
    /\ new_params' = [i \in Idx |->
                         XSub(policy[i], XMul(Fin(ParamScale), descent_step[i]))]
    /\ nonfin' = (~AllFin(descent_step) \/ ~IsFin(surr_loss))
    /\ trace' = Enter(trace, "update")
    /\ pc' = "commit"
    /\ UNCHANGED <<runv, models, batchv, ls, evals, probe, logv, saved, avg_kl,
                   fvp, klobs, x0start, b0start>>

\* vector_to_parameters(new_params, policy.parameters())
TrpoCommit ==
    /\ UNCHANGED purev
    /\ pc = "commit"
    /\ policy' = new_params
    /\ IF new_params = policy THEN avg_kl' = avg_kl
       ELSE \E o \in Outcomes(new_params, old_dists, surr_loss) : avg_kl' = o[2]
    /\ pc' = "refit"
    /\ UNCHANGED <<runv, baseline, val_optim, pol_optim, batchv, lsv, logv,
                   saved, fvp, klobs, x0start, b0start, nonfin, trace>>

\* mutant: the snapshot is written before the baseline is refitted
TrpoRefit_late ==
    /\ UNCHANGED purev
    /\ pc = "refit"
    /\ cfg.alg = "trpo"
    /\ UNCHANGED <<baseline, val_optim>>
    /\ ls' = NoLs
    /\ evals' = <<>>
    /\ probe' = NoProbe
    /\ trace' = Enter(Enter(trace, "save"), "refit")
    /\ pc' = "log"
    /\ UNCHANGED <<runv, policy, pol_optim, batchv, new_params, logv, saved,
                   ghostv>>

\* for _ in range(val_iters): zero_grad, backward, val_optim.step()
TrpoRefit ==
    /\ UNCHANGED purev
    /\ pc = "refit"
    /\ cfg.alg = "trpo"
    /\ baseline' = baseline + val_iters
    /\ val_optim' = val_optim + val_iters
    /\ ls' = NoLs
    /\ evals' = <<>>
    /\ probe' = NoProbe
    /\ trace' = Enter(trace, "refit")
    /\ pc' = "log"
    /\ UNCHANGED <<runv, policy, pol_optim, batchv, new_params, logv, saved,
                   ghostv>>

\* logkv('TotalNSamples', ...), statistics, dumpkvs()
TrpoLog ==
    /\ UNCHANGED purev
    /\ pc = "log"
    /\ cfg.alg = "trpo"
    /\ dumped' = LogKV(LogKV(name2val,
                     "TotalNSamples", Fin(TotalNSamples(updt))),
                     "MeanKL", avg_kl)
    /\ name2val' = EmptyKV
    /\ pc' = "save"
    /\ UNCHANGED <<runv, models, batchv, lsv, saved, ghostv, trace>>

\* mutant: the save is wrapped in a try/except that lets the loop go on
TrpoSave_caught ==
    /\ UNCHANGED purev
    /\ pc = "save"
    /\ cfg.alg = "trpo"
    /\ \E r \in SaveCall(saved, cfg.saver, cfg.interval, updt + 1,
                         [last_iter |-> updt, policy |-> policy,
                     baseline |-> baseline, pol_optim |-> pol_optim,
                     val_optim |-> val_optim]) :
          /\ saved' = r.store
          /\ IF r.raised THEN Propagate_swallowed("SaveError", "loop") ELSE Proceed("loop")
    /\ new_params' = NoVec
    /\ DropBatch
    /\ trace' = Enter(trace, "save")
    /\ UNCHANGED <<cfg, updt, iters_run, resumed, models, ls, evals, probe, logv,
                   x0start, b0start>>

\* logger.save_state(updt+1, dict(alg=dict(last_iter=updt), policy=..., ...))
TrpoSave ==
    /\ UNCHANGED purev
    /\ pc = "save"
    /\ cfg.alg = "trpo"
    /\ \E r \in SaveCall(saved, cfg.saver, cfg.interval, updt + 1,
                         [last_iter |-> updt, policy |-> policy,
                     baseline |-> baseline, pol_optim |-> pol_optim,
                     val_optim |-> val_optim]) :
          /\ saved' = r.store
          /\ IF r.raised THEN Propagate("SaveError", "loop") ELSE Proceed("loop")
    /\ new_params' = NoVec
    /\ DropBatch
    /\ trace' = Enter(trace, "save")
    /\ UNCHANGED <<cfg, updt, iters_run, resumed, models, ls, evals, probe, logv,
                   x0start, b0start>>

\* ------------------------------------------------------------------------
\* vanilla
\* ------------------------------------------------------------------------

\* logger.save_config(locals()), then the construction of policy, baseline
\* and optimizers; `if last_iter > -1` restores them from
\* logger.get_state(last_iter+1)
VanillaSetup ==
    /\ UNCHANGED purev
    /\ pc = "start"
    /\ cfg.alg = "vanilla"
    /\ IF SaveConfigRaises(cfg.saver)
       THEN /\ Propagate("ConfigTypeError", "loop")
            /\ UNCHANGED models
       ELSE IF cfg.last_iter > -1
       THEN IF get_state_params = 1 /\ (cfg.last_iter + 1) \in DOMAIN saved
            THEN LET state == saved[cfg.last_iter + 1]
                 IN /\ policy' = state.policy
                    /\ baseline' = state.baseline
                    /\ pol_optim' = state.pol_optim
                    /\ val_optim' = state.val_optim
                    /\ pc' = "loop"
                    /\ err' = err
            ELSE /\ policy' = InitParams
                 /\ baseline' = 0
                 /\ pol_optim' = 0
                 /\ val_optim' = 0
                 /\ pc' = "raised"
                 /\ err' = IF get_state_params = 1 THEN "KeyError" ELSE "TypeError"
       ELSE /\ policy' = InitParams
            /\ baseline' = 0
            /\ pol_optim' = 0
            /\ val_optim' = 0
            /\ pc' = "loop"
            /\ err' = err
    /\ UNCHANGED <<cfg, updt, iters_run, resumed, batchv, lsv, logv, saved,
                   ghostv, trace>>

\* J0, pol_optim.zero_grad(), (-J0).backward(), pol_optim.step()
VanillaUpdate ==
    /\ UNCHANGED purev
    /\ pc = "update"
    /\ cfg.alg = "vanilla"
    /\ \E y0 \in Y0Vals \ {PInf} : surr_loss' = y0
    /\ \E st \in OptimSteps : policy' = [i \in Idx |-> XSub(policy[i], st[i])]
    /\ pol_optim' = pol_optim + 1
    /\ trace' = Enter(trace, "update")
    /\ pc' = "refit"
    /\ UNCHANGED <<runv, baseline, val_optim, all_obs, subsamp_obs, old_dists,
                   pol_grad, descent_step, scale, lsv, logv, saved, ghostv>>

\* for _ in range(val_iters): targets, zero_grad, backward, val_optim.step()
VanillaRefit ==
    /\ UNCHANGED purev
    /\ pc = "refit"
    /\ cfg.alg = "vanilla"
    /\ baseline' = baseline + val_iters
    /\ val_optim' = val_optim + val_iters
    /\ trace' = Enter(trace, "refit")
    /\ pc' = "log"
    /\ UNCHANGED <<runv, policy, pol_optim, batchv, lsv, logv, saved, ghostv>>

\* logkv("Objective", J0.item()), statistics, dumpkvs()
VanillaLog ==
    /\ UNCHANGED purev
    /\ pc = "log"
    /\ cfg.alg = "vanilla"
    /\ dumped' = LogKV(name2val, "Objective", XNeg(surr_loss))
    /\ name2val' = EmptyKV
    /\ pc' = "save"
    /\ UNCHANGED <<runv, models, batchv, lsv, saved, ghostv, trace>>

\* logger.save_state(updt+1, dict(alg=dict(last_iter=updt), policy=..., ...))
VanillaSave ==
    /\ UNCHANGED purev
    /\ pc = "save"
    /\ cfg.alg = "vanilla"
    /\ \E r \in SaveCall(saved, cfg.saver, cfg.interval, updt + 1,
                         [last_iter |-> updt, policy |-> policy,
                     baseline |-> baseline, pol_optim |-> pol_optim,
                     val_optim |-> val_optim]) :
          /\ saved' = r.store
          /\ IF r.raised THEN Propagate("SaveError", "loop") ELSE Proceed("loop")
    /\ DropBatch
    /\ trace' = Enter(trace, "save")
    /\ UNCHANGED <<cfg, updt, iters_run, resumed, models, lsv, logv,
                   x0start, b0start>>

\* ------------------------------------------------------------------------
\* tnpg
\* ------------------------------------------------------------------------

\* subsample, surr_loss, pol_grad, F_0, descent_direction, scale,
\* vector_to_parameters(flat_params - descent_step, policy.parameters())
TnpgUpdate ==
    /\ UNCHANGED purev
    /\ pc = "update"
    /\ cfg.alg = "tnpg"
    /\ \E y0 \in Y0Vals \ {PInf} : surr_loss' = y0
    /\ \E d \in DirVecs, c \in CurvVals :
          /\ (d = ZeroVec) => (c = Fin(0))
          /\ descent_step' = StepOf(d, ScaleOf(cfg.delta, c))
          /\ scale' = [set |-> TRUE, dFd |-> c, s |-> ScaleOf(cfg.delta, c)]
          /\ policy' = [i \in Idx |->
                           XSub(policy[i],
                                XMul(Fin(ParamScale), StepOf(d, ScaleOf(cfg.delta, c))[i]))]
    /\ \E sub \in Subsamples(cfg.kl_frac, all_obs) :
          /\ subsamp_obs' = sub
          /\ \E u \in CgObs(sub, all_obs), o \in F_0_obs(sub, all_obs) :
                fvp' = [obs |-> o, cg |-> u, at |-> policy, n |-> cg_iters + 1]
    /\ trace' = Enter(trace, "update")
    /\ pc' = "refit"
    /\ UNCHANGED <<runv, baseline, val_optim, pol_optim, all_obs, old_dists,
                   pol_grad, lsv, logv, saved, avg_kl, klobs, x0start, b0start,
                   nonfin>>

\* baseline.update(trajs)
TnpgRefit ==
    /\ UNCHANGED purev
    /\ pc = "refit"
    /\ cfg.alg = "tnpg"
    /\ baseline' = baseline + 1
    /\ trace' = Enter(trace, "refit")
    /\ pc' = "log"
    /\ UNCHANGED <<runv, policy, val_optim, pol_optim, batchv, lsv, logv, saved,
                   ghostv>>

\* logkv("SurrLoss", surr_loss.item()), statistics, dumpkvs()
TnpgLog ==
    /\ UNCHANGED purev
    /\ pc = "log"
    /\ cfg.alg = "tnpg"
    /\ dumped' = LogKV(name2val, "SurrLoss", surr_loss)
    /\ name2val' = EmptyKV
    /\ pc' = "save"
    /\ UNCHANGED <<runv, models, batchv, lsv, saved, ghostv, trace>>

\* if snapshot_saver is not None: snapshot_saver.save_state(iter,
\*     dict(alg=tnpg, alg_state=dict(policy=policy, ..., last_iter=last_iter)))
TnpgSave ==
    /\ UNCHANGED purev
    /\ pc = "save"
    /\ cfg.alg = "tnpg"
    /\ IF cfg.saver
       THEN /\ \E r \in SaveCall(saved, TRUE, cfg.interval, updt,
                         [last_iter |-> cfg.last_iter, policy |-> policy,
                     baseline |-> baseline, pol_optim |-> pol_optim,
                     val_optim |-> val_optim]) :
                  /\ saved' = r.store
                  /\ IF r.raised THEN Propagate("SaveError", "loop")
                     ELSE Proceed("loop")
            /\ trace' = Enter(trace, "save")
       ELSE /\ Proceed("loop")
            /\ UNCHANGED <<saved, trace>>
    /\ DropBatch
    /\ UNCHANGED <<cfg, updt, iters_run, resumed, models, lsv, logv,
                   x0start, b0start>>

\* ------------------------------------------------------------------------
\* natural
\* ------------------------------------------------------------------------

\* if optimizer is None: optimizer = torch.optim.Adam(policy.parameters())
NaturalSetup ==
    /\ UNCHANGED purev
    /\ pc = "start"
    /\ cfg.alg = "natural"
    /\ pc' = "loop"
    /\ UNCHANGED <<runv, models, batchv, lsv, logv, saved, ghostv, trace>>

\* subsample, surr_loss, pol_grad, natural_gradient, optimizer.step()
NaturalUpdate ==
    /\ UNCHANGED purev
    /\ pc = "update"
    /\ cfg.alg = "natural"
    /\ \E st \in OptimSteps : policy' = [i \in Idx |-> XSub(policy[i], st[i])]
    /\ pol_optim' = pol_optim + 1
    /\ \E sub \in Subsamples(cfg.kl_frac, all_obs) :
          /\ subsamp_obs' = sub
          /\ \E u \in CgObs(sub, all_obs) :
                fvp' = [obs |-> sub, cg |-> u, at |-> policy, n |-> cg_iters]
    /\ trace' = Enter(trace, "update")
    /\ pc' = "refit"
    /\ UNCHANGED <<runv, baseline, val_optim, all_obs, old_dists, surr_loss,
                   pol_grad, descent_step, scale, lsv, logv, saved, avg_kl,
                   klobs, x0start, b0start, nonfin>>

\* baseline.update(trajs)
NaturalRefit ==
    /\ UNCHANGED purev
    /\ pc = "refit"
    /\ cfg.alg = "natural"
    /\ baseline' = baseline + 1
    /\ trace' = Enter(trace, "refit")
    /\ pc' = "log"
    /\ UNCHANGED <<runv, policy, val_optim, pol_optim, batchv, lsv, logv, saved,
                   ghostv>>

\* logkv("MeanKL", avg_kl.item()), statistics, dumpkvs()
NaturalLog ==
    /\ UNCHANGED purev
    /\ pc = "log"
    /\ cfg.alg = "natural"
    /\ \E kl \in KLVals : dumped' = LogKV(name2val, "MeanKL", kl)
    /\ name2val' = EmptyKV
    /\ pc' = "save"
    /\ UNCHANGED <<runv, models, batchv, lsv, saved, ghostv, trace>>

\* if snapshot_saver is not None: snapshot_saver.save_state(updt,
\*     dict(alg=natural, alg_state=dict(policy=policy, ..., last_iter=updt)))
NaturalSave ==
    /\ UNCHANGED purev
    /\ pc = "save"
    /\ cfg.alg = "natural"
    /\ IF cfg.saver
       THEN /\ \E r \in SaveCall(saved, TRUE, cfg.interval, updt,
                         [last_iter |-> updt, policy |-> policy,
                     baseline |-> baseline, pol_optim |-> pol_optim,
                     val_optim |-> val_optim]) :
                  /\ saved' = r.store
                  /\ IF r.raised THEN Propagate("SaveError", "loop")
                     ELSE Proceed("loop")
            /\ trace' = Enter(trace, "save")
       ELSE /\ Proceed("loop")
            /\ UNCHANGED <<saved, trace>>
    /\ DropBatch
    /\ UNCHANGED <<cfg, updt, iters_run, resumed, models, lsv, logv,
                   x0start, b0start>>

\* ------------------------------------------------------------------------
\* Stopping a run between iterations and starting it again from the
\* latest snapshot
\* ------------------------------------------------------------------------

\* the run is cancelled at an iteration boundary
Kill ==
    /\ UNCHANGED purev
    /\ pc = "loop"
    /\ cfg.alg # "trpo"
    /\ iters_run > 0
    /\ ~resumed.set
    /\ DOMAIN saved # {}
    /\ pc' = "stopped"
    /\ UNCHANGED <<runv, models, batchv, lsv, logv, saved, ghostv, trace>>

\* the training function is called again with the state of the latest
\* snapshot: last_iter for vanilla, the alg_state arguments for tnpg and
\* natural
Resume ==
    /\ UNCHANGED purev
    /\ pc \in {"stopped", "done"}
    /\ cfg.alg # "trpo"
    /\ ~resumed.set
    /\ DOMAIN saved # {}
    /\ LET index == MaxOf(DOMAIN saved)
           state == saved[index]
       IN /\ resumed' = [set |-> TRUE,
                         completed |-> IF cfg.alg = "vanilla" THEN index - 1
                                       ELSE index,
                         policy |-> state.policy, baseline |-> state.baseline,
                         pol_optim |-> state.pol_optim,
                         val_optim |-> state.val_optim]
          /\ cfg' = [cfg EXCEPT !.last_iter = state.last_iter]
          /\ policy' = IF cfg.alg = "vanilla" THEN InitParams ELSE state.policy
          /\ baseline' = IF cfg.alg = "vanilla" THEN 0 ELSE state.baseline
          /\ pol_optim' = IF cfg.alg = "vanilla" THEN 0 ELSE state.pol_optim
          /\ val_optim' = IF cfg.alg = "vanilla" THEN 0 ELSE state.val_optim
    /\ pc' = IF cfg.alg = "tnpg" THEN "loop" ELSE "start"
    /\ updt' = -1
    /\ iters_run' = 0
    /\ name2val' = EmptyKV
    /\ trace' = <<>>
    /\ UNCHANGED <<err, batchv, lsv, dumped, saved, ghostv>>

Next ==
    \/ LoopNext
    \/ Collect
    \/ ComputePgVars
    \/ TrpoSetup
    \/ TrpoSubsample
    \/ TrpoPolicyGradient
    \/ TrpoNaturalGradient
    \/ LineSearchBegin
    \/ LineSearchTrial
    \/ LineSearchReject
    \/ TrpoNoLineSearch
    \/ TrpoCommit
    \/ TrpoRefit
    \/ TrpoLog
    \/ TrpoSave
    \/ VanillaSetup
    \/ VanillaUpdate
    \/ VanillaRefit
    \/ VanillaLog
    \/ VanillaSave
    \/ TnpgUpdate
    \/ TnpgRefit
    \/ TnpgLog
    \/ TnpgSave
    \/ NaturalSetup
    \/ NaturalUpdate
    \/ NaturalRefit
    \/ NaturalLog
    \/ NaturalSave
    \/ Kill
    \/ Resume

Spec == Init /\ [][Next]_vars

\* no training function is running
NoCfg == [alg |-> "none", steps |-> 0, n_iter |-> 0, last_iter |-> -1,
          linesearch |-> FALSE, delta |-> 0,
          kl_frac |-> [num |-> 1, den |-> 1], saver |-> FALSE,
          interval |-> 1]

MainIdle == MainStart(NoCfg, "idle")

\* ------------------------------------------------------------------------
\* Advantage estimation (compute_pg_vars, proj.common.sampling), for one
\* environment column of T transitions: r[t], done[t] for t in 1..T and
\* the value estimates v[t] for t in 1..T+1, v[T+1] being the bootstrap
\* value.  gamma and lambda are fractions; advantages are kept as integer
\* multiples of 1 / AdvUnit, which makes every product below exact.
\* ------------------------------------------------------------------------
GammaVals == {[num |-> 1, den |-> 2], [num |-> 2, den |-> 2]}
LamVals == {[num |-> 0, den |-> 2], [num |-> 1, den |-> 2], [num |-> 2, den |-> 2]}
RewardVals == {0, 1}
ValueVals == {0, 2}

Rollouts ==
    UNION {[r : [1..T -> RewardVals], v : [1..(T + 1) -> ValueVals],
            done : [1..T -> BOOLEAN], gamma : GammaVals, lam : LamVals] :
              T \in 1..MaxT}

Horizon(ro) == Len(ro.r)

AdvUnit(ro) ==
    ro.gamma.den * Pow(ro.gamma.den * ro.lam.den, Horizon(ro) - 1)

\* (1 - done_t)
NotDone(ro, t) == IF ro.done[t] THEN 0 ELSE 1

\* delta_t = r_t + gamma * V(s_{t+1}) * (1 - done_t) - V(s_t)
TdResidual(ro, t) ==
    (ro.r[t] * ro.gamma.den
       + ro.gamma.num * ro.v[t + 1] * NotDone(ro, t)
       - ro.v[t] * ro.gamma.den) * (AdvUnit(ro) \div ro.gamma.den)

\* mutant: the recurrence discounts A_{t+1} by gamma alone
Advantage_nolam(ro, t, next) ==
    TdResidual(ro, t)
      + (ro.gamma.num * NotDone(ro, t) * next) \div ro.gamma.den

\* A_t = delta_t + gamma * lambda * (1 - done_t) * A_{t+1}
Advantage(ro, t, next) ==
    TdResidual(ro, t)
      + (ro.gamma.num * ro.lam.num * NotDone(ro, t) * next)
          \div (ro.gamma.den * ro.lam.den)

InitGAE ==
    /\ MainIdle
    /\ ParseIdle
    /\ LoggerIdle
    /\ LateIdle
    /\ rollout \in Rollouts
    /\ adv = [t \in 1..(Horizon(rollout) + 1) |-> 0]
    /\ gae_t = Horizon(rollout)

\* one step of the backward walk: the last timestep first, A_{T+1} = 0
GaeStep ==
    /\ gae_t >= 1
    /\ adv' = [adv EXCEPT ![gae_t] = Advantage(rollout, gae_t, adv[gae_t + 1])]
    /\ gae_t' = gae_t - 1
    /\ UNCHANGED <<rollout, mainv, parsev, loggerv, latev>>

NextGAE == GaeStep

SpecGAE == InitGAE /\ [][NextGAE]_vars

\* ------------------------------------------------------------------------
\* parse_and_execute_grid_search (run.py): the passes that build arg_dict.
\* An argument is a sequence of characters.
\* ------------------------------------------------------------------------
\* the names 'log_dir', 'datestamp', 'exp_name' and 'env'
LogDir == <<"l", "o", "g", "_", "d", "i", "r">>
Datestamp == <<"d", "a", "t", "e", "s", "t", "a", "m", "p">>
ExpName == <<"e", "x", "p", "_", "n", "a", "m", "e">>
Env == <<"e", "n", "v">>

\* RUN_KEYS = ['log_dir', 'datestamp']
RUN_KEYS == <<LogDir, Datestamp>>

\* cmd, the name of the algorithm
CmdVals == {<<"t", "r", "p", "o">>, <<"v", "a", "n", "i", "l", "l", "a">>}

\* ids of the environments registered with gym
EnvIds == {<<"x">>}

TokenVals ==
    {<<"-", "-", "a">>, <<"-", "-", "-", "a">>, <<"a", "-", "-", "b">>,
     <<"-", "a">>, <<"1">>, <<"0", "0">>, <<"x">>, <<"-", "h">>,
     <<"-", "-">> \o LogDir, <<"-", "-">> \o Datestamp,
     <<"-", "-">> \o ExpName, <<"-", "-">> \o Env}

ArgLists == UNION {[1..n -> TokenVals] : n \in 0..MaxArgs}

valid_help == {<<"-", "-", "h", "e", "l", "p">>, <<"-", "h">>,
               <<"h", "e", "l", "p">>}

Digits == {"0", "1", "2", "3", "4", "5", "6", "7", "8", "9"}

DigitVal(ch) ==
    CASE ch = "0" -> 0 [] ch = "1" -> 1 [] ch = "2" -> 2 [] ch = "3" -> 3
      [] ch = "4" -> 4 [] ch = "5" -> 5 [] ch = "6" -> 6 [] ch = "7" -> 7
      [] ch = "8" -> 8 [] ch = "9" -> 9

RECURSIVE NumeralVal(_, _)
NumeralVal(arg, n) ==
    IF n = 0 THEN 0 ELSE 10 * NumeralVal(arg, n - 1) + DigitVal(arg[n])

\* process(arg): eval(arg), or arg itself when eval raises; of the
\* arguments drawn here only the decimal numerals evaluate: digits without
\* a leading zero, or zeros only
process(arg) ==
    IF Len(arg) > 0 /\ (\A i \in 1..Len(arg) : arg[i] \in Digits)
          /\ (\/ Len(arg) = 1
              \/ arg[1] # "0"
              \/ \A i \in 1..Len(arg) : arg[i] = "0")
    THEN [int |-> NumeralVal(arg, Len(arg))]
    ELSE [str |-> arg]

\* '--' in arg
HasDashes(arg) ==
    \E i \in 1..(Len(arg) - 1) : arg[i] = "-" /\ arg[i + 1] = "-"

\* arg.lstrip('-')
RECURSIVE lstrip(_)
lstrip(arg) ==
    IF Len(arg) > 0 /\ arg[1] = "-" THEN lstrip(Tail(arg)) ELSE arg

\* arg_dict[key] = val
DictSet(d, key, val) ==
    [k \in (DOMAIN d) \cup {key} |-> IF k = key THEN val ELSE d[k]]

\* del arg_dict[key]
DictDel(d, key) == [k \in (DOMAIN d) \ {key} |-> d[k]]

\* the state of `for k in RUN_KEYS` after its first n passes: arg_dict,
\* run_kwargs, and whether an assert failed
RECURSIVE RunKeys(_, _)
RunKeys(d, n) ==
    IF n = 0 THEN [arg_dict |-> d, run_kwargs |-> <<>>, raised |-> FALSE]
    ELSE LET before == RunKeys(d, n - 1)
             k == RUN_KEYS[n]
         IN IF before.raised \/ k \notin DOMAIN before.arg_dict THEN before
            ELSE IF Len(before.arg_dict[k]) # 1
            THEN [before EXCEPT !.raised = TRUE]
            ELSE [arg_dict |-> DictDel(before.arg_dict, k),
                  run_kwargs |-> DictSet(before.run_kwargs, k,
                                         before.arg_dict[k][1]),
                  raised |-> FALSE]

\* no env_name of arg_dict['env'] fails `assert env_name in valid_envs`
EnvsValid(names, valid_envs) ==
    \A i \in 1..Len(names) :
        /\ DOMAIN names[i] = {"str"}
        /\ names[i].str \in valid_envs

InitParse ==
    /\ MainIdle
    /\ GaeIdle
    /\ LoggerIdle
    /\ LateIdle
    /\ args \in ArgLists
    /\ arg_i = 0
    /\ arg_key = <<>>
    /\ arg_dict = <<>>
    /\ run_kwargs = <<>>
    /\ exp_name = <<>>
    /\ parse_pc = "help"

\* if any([arg in valid_help for arg in args]): ... sys.exit()
HelpCheck ==
    /\ parse_pc = "help"
    /\ parse_pc' = IF \E i \in 1..Len(args) : args[i] \in valid_help
                   THEN "exit" ELSE "first"
    /\ UNCHANGED <<args, arg_i, arg_key, arg_dict, run_kwargs, exp_name, mainv,
                   gaev, loggerv, latev>>

\* one pass of `for i, arg in enumerate(args)`
FirstPass ==
    /\ parse_pc = "first"
    /\ IF arg_i = Len(args)
       THEN /\ parse_pc' = "second"
            /\ UNCHANGED <<arg_i, arg_key, arg_dict>>
       ELSE LET arg == args[arg_i + 1]
            IN IF ~(arg_i > 0 \/ HasDashes(arg))
               THEN /\ parse_pc' = "raised"
                    /\ UNCHANGED <<arg_i, arg_key, arg_dict>>
               ELSE /\ parse_pc' = "first"
                    /\ arg_i' = arg_i + 1
                    /\ IF HasDashes(arg)
                       THEN /\ arg_key' = lstrip(arg)
                            /\ arg_dict' = DictSet(arg_dict, lstrip(arg), <<>>)
                       ELSE /\ arg_key' = arg_key
                            /\ arg_dict' = DictSet(arg_dict, arg_key,
                                   Append(arg_dict[arg_key], process(arg)))
    /\ UNCHANGED <<args, run_kwargs, exp_name, mainv, gaev, loggerv, latev>>

\* for k, v in arg_dict.items(): if len(v) == 0: v.append(True)
SecondPass ==
    /\ parse_pc = "second"
    /\ arg_dict' = [k \in DOMAIN arg_dict |->
                       IF Len(arg_dict[k]) = 0 THEN <<[bool |-> TRUE]>>
                       ELSE arg_dict[k]]
    /\ parse_pc' = "final"
    /\ UNCHANGED <<args, arg_i, arg_key, run_kwargs, exp_name, mainv, gaev,
                   loggerv, latev>>

\* the final pass, `for k in RUN_KEYS`: the run keys move from arg_dict to
\* run_kwargs; a run key with more or less than one value fails the assert
FinalPass ==
    /\ parse_pc = "final"
    /\ LET r == RunKeys(arg_dict, Len(RUN_KEYS))
       IN /\ arg_dict' = r.arg_dict
          /\ run_kwargs' = r.run_kwargs
          /\ parse_pc' = IF r.raised THEN "raised" ELSE "exp_name"
    /\ UNCHANGED <<args, arg_i, arg_key, exp_name, mainv, gaev, loggerv,
                   latev>>

\* if 'exp_name' in arg_dict: ... else: exp_name = 'cmd_' + cmd
ExperimentName ==
    /\ parse_pc = "exp_name"
    /\ IF ExpName \in DOMAIN arg_dict
       THEN IF Len(arg_dict[ExpName]) = 1
            THEN /\ exp_name' = arg_dict[ExpName][1]
                 /\ arg_dict' = DictDel(arg_dict, ExpName)
                 /\ parse_pc' = "env"
            ELSE /\ parse_pc' = "raised"
                 /\ UNCHANGED <<arg_dict, exp_name>>
       ELSE /\ \E cmd \in CmdVals :
                  exp_name' = [str |-> <<"c", "m", "d", "_">> \o cmd]
            /\ parse_pc' = "env"
            /\ UNCHANGED arg_dict
    /\ UNCHANGED <<args, arg_i, arg_key, run_kwargs, mainv, gaev, loggerv,
                   latev>>

\* assert 'env' in arg_dict, and assert env_name in valid_envs for every
\* env_name; "grid" stands for the experiment grid, which is built from
\* arg_dict and run with run_kwargs
EnvCheck ==
    /\ parse_pc = "env"
    /\ \E valid_envs \in SUBSET EnvIds :
          parse_pc' = IF Env \in DOMAIN arg_dict
                         /\ EnvsValid(arg_dict[Env], valid_envs)
                      THEN "grid" ELSE "raised"
    /\ UNCHANGED <<args, arg_i, arg_key, arg_dict, run_kwargs, exp_name, mainv,
                   gaev, loggerv, latev>>

NextParse ==
    \/ HelpCheck
    \/ FirstPass
    \/ SecondPass
    \/ FinalPass
    \/ ExperimentName
    \/ EnvCheck

SpecParse == InitParse /\ [][NextParse]_vars

\* ------------------------------------------------------------------------
\* Logger.logkv / Logger.dumpkvs with the output formats (utils/logger.py).
\* A key is a sequence of characters, a value an integer; an OrderedDict is
\* the sequence of its items.
\* ------------------------------------------------------------------------

\* a key of trunc_max + 1 characters that ends in ch
LongKey(ch) == [i \in 1..(trunc_max + 1) |-> IF i <= trunc_max THEN "k" ELSE ch]

KeyVals == {<<"a">>, LongKey("x"), LongKey("y")}
\* 100005 has one digit more than '%-8.5g' keeps
LogVals == {1, 100005}
FormatLists == {<<"human">>, <<"json">>, <<"human", "json">>}

\* index of key among the items of od, 0 when it is absent
OdIndex(od, key) ==
    IF \E i \in 1..Len(od) : od[i].key = key
    THEN CHOOSE i \in 1..Len(od) : od[i].key = key
    ELSE 0

\* od[key] = val on an OrderedDict: a key already present keeps its place
OdSet(od, key, val) ==
    IF OdIndex(od, key) = 0 THEN Append(od, [key |-> key, val |-> val])
    ELSE [od EXCEPT ![OdIndex(od, key)] = [key |-> key, val |-> val]]

\* HumanOutputFormat._truncate: s[:20] + '...' if len(s) > 23 else s
truncate(str) ==
    IF Len(str) > trunc_max
    THEN SubSeq(str, 1, trunc_keep) \o <<".", ".", ".">>
    ELSE str

\* '%-8.5g' % (val,): the number with g_digits significant digits, for
\* integers from 0 to 10 ^ (g_digits + 1) - 1; the last digit is rounded
\* off, a 5 towards the even neighbour
FormatG(val) ==
    IF val < Pow(10, g_digits) THEN val
    ELSE LET q == val \div 10
             r == val % 10
         IN IF r > 5 \/ (r = 5 /\ q % 2 = 1) THEN (q + 1) * 10 ELSE q * 10

\* key2str of HumanOutputFormat.writekvs after the first n items of kvs
RECURSIVE key2str(_, _)
key2str(kvs, n) ==
    IF n = 0 THEN <<>>
    ELSE OdSet(key2str(kvs, n - 1), truncate(kvs[n].key), FormatG(kvs[n].val))

\* what fmt.writekvs(kvs) writes: the table rows, or the JSON object
writekvs(fmt, kvs) ==
    IF fmt = "human" THEN key2str(kvs, Len(kvs)) ELSE kvs

\* max() of an empty sequence raises ValueError in HumanOutputFormat
WriteRaises(fmt, kvs) == fmt = "human" /\ Len(kvs) = 0

InitLogger ==
    /\ MainIdle
    /\ GaeIdle
    /\ ParseIdle
    /\ LateIdle
    /\ output_formats \in FormatLists
    /\ od_name2val = <<>>
    /\ written = [f \in 1..Len(output_formats) |-> <<>>]
    /\ since = <<>>
    /\ log_pc = "run"

\* Logger.logkv: self.name2val[key] = val
logkv ==
    /\ log_pc = "run"
    /\ Len(since) < MaxKvs
    /\ \E key \in KeyVals, val \in LogVals :
          /\ od_name2val' = OdSet(od_name2val, key, val)
          /\ since' = Append(since, [key |-> key, val |-> val])
    /\ UNCHANGED <<output_formats, written, log_pc, mainv, gaev, parsev, latev>>

\* Logger.dumpkvs: for fmt in self.output_formats: fmt.writekvs(self.name2val)
\* and then self.name2val.clear(); a writekvs that raises ends the call
dumpkvs ==
    /\ log_pc = "run"
    /\ LET n == Len(output_formats)
           bad == {f \in 1..n : WriteRaises(output_formats[f], od_name2val)}
           stop == IF bad = {} THEN n + 1
                   ELSE CHOOSE f \in bad : \A g \in bad : f <= g
       IN /\ written' = [f \in 1..n |->
                            IF f < stop
                            THEN writekvs(output_formats[f], od_name2val)
                            ELSE written[f]]
          /\ IF bad = {}
             THEN /\ od_name2val' = <<>>
                  /\ since' = <<>>
                  /\ log_pc' = "run"
             ELSE /\ log_pc' = "raised"
                  /\ UNCHANGED <<od_name2val, since>>
    /\ UNCHANGED <<output_formats, mainv, gaev, parsev, latev>>

NextLogger ==
    \/ logkv
    \/ dumpkvs

SpecLogger == InitLogger /\ [][NextLogger]_vars


\* ------------------------------------------------------------------------
\* Properties
\* ------------------------------------------------------------------------

InLineSearch == cfg.alg = "trpo" /\ cfg.linesearch
                /\ pc \in {"ls_trial", "ls_reject", "commit", "refit"}

\* x is x0 - backtrack_ratio^k * dx, stated without the model's Candidate
IsCand(x, x0, k, dx) ==
    \A i \in Idx :
        IF IsFin(x0[i]) /\ IsFin(dx[i])
        THEN /\ IsFin(x[i])
             /\ x[i].v * Pow(ratio_den, k)
                  = x0[i].v * Pow(ratio_den, k)
                    - Pow(ratio_num, k) * ParamScale * dx[i].v
        ELSE ~IsFin(x[i])

SomeBoth == \E j \in 1..Len(evals) : evals[j].both

\* the full step satisfies the KL bound and the Armijo condition although
\* line_search tried no candidate
ProbeBoth ==
    /\ probe.set
    /\ XLt(probe.kl, Fin(cfg.delta))
    /\ XGe(XMul(XSub(ls.y0, probe.loss), Fin(accept_den)),
           XMul(ls.ei, Fin(accept_num)))

\* the trials made so far are k = 0, 1, ... in order, at most max_backtracks
\* of them, none but the last satisfies both conditions, and a returned
\* vector is the candidate of the last trial exactly when that trial
\* satisfies both, x0 otherwise
TrialsInOrder ==
    InLineSearch =>
        /\ Len(evals) <= max_backtracks
        /\ \A j \in 1..Len(evals) : evals[j].exp = j - 1
        /\ \A j \in 1..(Len(evals) - 1) : ~evals[j].both
        /\ (pc = "ls_trial") => (~SomeBoth /\ ls.exp = Len(evals))
        /\ (pc \in {"commit", "refit"}) =>
              IF SomeBoth
              THEN /\ IsCand(new_params, ls.x0, Len(evals) - 1, ls.dx)
                   /\ new_params # ls.x0
              ELSE /\ new_params = ls.x0
                   /\ (ls.skipped \/ Len(evals) = max_backtracks)

\* C1 as stated: the vector returned by line_search is the candidate with
\* the smallest k that satisfies both the KL bound and the Armijo condition,
\* whatever the expected improvement is
C1_Original ==
    /\ TrialsInOrder
    /\ (InLineSearch /\ pc = "commit" /\ ProbeBoth) =>
          IsCand(new_params, ls.x0, 0, ls.dx)

\* C1 (amended): when expected_improvement >= atol, the candidates are tried
\* in the order k = 0, 1, ..., the vector returned is the candidate with the
\* smallest k that satisfies both the KL bound and the Armijo condition, and
\* nothing is evaluated after it; when expected_improvement < atol no
\* candidate is tried and x0 is returned
C1_FirstAccepted ==
    /\ TrialsInOrder
    /\ InLineSearch =>
          /\ ls.skipped <=> ~XGe(ls.ei, Fin(atol))
          /\ ls.skipped => (evals = <<>>)
          /\ (~ls.skipped /\ pc \in {"commit", "refit"}) => Len(evals) >= 1

\* C1 witness: a candidate with k >= 2 was accepted after the earlier ones
\* were rejected
C1_Witness ==
    /\ InLineSearch
    /\ pc = "commit"
    /\ Len(evals) >= 3
    /\ evals[Len(evals)].both
    /\ new_params # ls.x0

\* C2: when no candidate satisfies both conditions (as always when delta = 0)
\* line_search returns x0 without raising, records ActualImprovement = 0 and
\* ImprovementRatio = 0, and the update leaves the policy's parameters as
\* they were when the iteration started
C2_RejectKeepsParams ==
    /\ (InLineSearch /\ cfg.delta = 0 /\ pc \in {"commit", "refit"}) => ~SomeBoth
    /\ (InLineSearch /\ pc \in {"commit", "refit"} /\ ~SomeBoth) =>
          /\ new_params = x0start
          /\ err = "none"
          /\ "ActualImprovement" \in DOMAIN name2val
          /\ name2val["ActualImprovement"] = Fin(0)
          /\ "ImprovementRatio" \in DOMAIN name2val
          /\ name2val["ImprovementRatio"] = Fin(0)
          /\ (pc = "refit") => (policy = x0start)

\* C2 witness: every one of the max_backtracks candidates was tried and
\* rejected, and the update is over
C2_Witness ==
    /\ InLineSearch
    /\ pc = "refit"
    /\ Len(evals) = max_backtracks
    /\ ~SomeBoth
    /\ policy = x0start

\* C3 as stated: after the policy update of any trpo iteration the mean KL
\* from old_dists to the updated policy is at most delta (stated for the
\* updates whose step and KL are finite numbers)
C3_Original ==
    (cfg.alg = "trpo" /\ pc \in {"refit", "log", "save"}
       /\ AllFin(policy) /\ IsFin(avg_kl)) =>
        XGe(Fin(cfg.delta), avg_kl)

\* C3 (amended): after the policy update of a trpo iteration run with
\* linesearch enabled, the mean KL from old_dists to the updated policy is
\* at most delta
C3_KLWithinDelta ==
    (cfg.alg = "trpo" /\ cfg.linesearch /\ pc \in {"refit", "log", "save"}) =>
        XGe(Fin(cfg.delta), avg_kl)

\* C3 witness: an accepted step has changed the parameters
C3_Witness ==
    /\ cfg.alg = "trpo"
    /\ cfg.linesearch
    /\ pc = "log"
    /\ policy # x0start
    /\ IsFin(avg_kl)
    /\ avg_kl.v > 0

\* C4: after every trial the policy holds x0 - ratio^k * dx computed from
\* the snapshot x0 taken when the iteration started, and when the update
\* ends the policy holds the vector line_search returned: x0 when every
\* trial was rejected, the accepted candidate otherwise
C4_TrialsFromSnapshot ==
    InLineSearch =>
        /\ ls.x0 = x0start
        /\ ls.dx = descent_step
        /\ (Len(evals) > 0 /\ pc # "refit") =>
              IsCand(policy, x0start, Len(evals) - 1, descent_step)
        /\ (pc = "refit") =>
              /\ policy = new_params
              /\ IF SomeBoth
                 THEN IsCand(policy, x0start, Len(evals) - 1, descent_step)
                 ELSE policy = x0start

\* C4 witness: between two trials, after the second one
C4_Witness ==
    /\ InLineSearch
    /\ pc = "ls_trial"
    /\ Len(evals) = 2
    /\ policy # x0start
    /\ ls.x0 = x0start

\* C5 as stated: when a non-finite quantity enters trpo's update the step is
\* rejected: zero improvement is recorded and the parameters after the
\* update are the finite ones the iteration started with
C5_NonFiniteRejected ==
    (cfg.alg = "trpo" /\ pc = "refit" /\ nonfin) =>
        /\ policy = x0start
        /\ AllFin(policy)
        /\ "ActualImprovement" \in DOMAIN name2val
        /\ name2val["ActualImprovement"] = Fin(0)

\* C6 as stated: F_0 and the KL check of f_barrier are evaluated on the
\* same observations and against the same snapshot
C6_SameObservations ==
    (cfg.alg = "trpo" /\ fvp.n > 0 /\ klobs.n > 0) =>
        /\ fvp.obs = klobs.obs
        /\ fvp.at = klobs.at

LastIndex == IF cfg.alg \in {"trpo", "vanilla"} THEN updt + 1 ELSE updt

\* C7 as stated: the state saved at the end of iteration k records k as the
\* last completed iteration with the parameters of that moment, and a run
\* resumed from it starts at iteration k + 1
C7_SavedState ==
    /\ (pc = "loop" /\ iters_run > 0 /\ cfg.saver
          /\ LastIndex \in DOMAIN saved) =>
          /\ saved[LastIndex].last_iter = updt
          /\ saved[LastIndex].policy = policy
          /\ saved[LastIndex].baseline = baseline
    /\ resumed.set => (cfg.last_iter = resumed.completed)

\* C8 as stated, for vanilla: a resumed run restores policy, baseline and
\* optimizer state before the first sample is collected and starts at
\* iteration L + 1
C8_ResumeRestores ==
    (resumed.set /\ cfg.alg = "vanilla") =>
        /\ pc # "raised"
        /\ (pc = "collect" /\ iters_run = 1) =>
              /\ updt = resumed.completed + 1
              /\ policy = resumed.policy
              /\ baseline = resumed.baseline
              /\ pol_optim = resumed.pol_optim
              /\ val_optim = resumed.val_optim

PhaseOrder == <<"collect", "compute", "update", "refit", "save">>

\* C9: in trpo and vanilla every iteration goes through collect, compute,
\* update, refit, save in this order, and an iteration is complete before
\* the samples of the next are collected
C9_PhaseOrder ==
    (cfg.alg \in {"trpo", "vanilla"}) =>
        /\ \A p \in 1..Len(trace) : trace[p] = PhaseOrder[((p - 1) % 5) + 1]
        /\ (pc = "loop") => (Len(trace) = 5 * iters_run)
        /\ (pc = "collect") => (Len(trace) = 5 * (iters_run - 1))
        /\ (pc \in {"refit", "log"}) =>
              (Len(trace) \in {5 * iters_run - 2, 5 * iters_run - 1})

\* C9 witness: the samples of a second iteration are being collected
C9_Witness ==
    /\ cfg.alg \in {"trpo", "vanilla"}
    /\ pc = "compute"
    /\ iters_run = 2
    /\ Len(trace) = 6

ExpectedIterations ==
    IF cfg.alg = "trpo" THEN cfg.steps \div batch
    ELSE IF cfg.n_iter - cfg.last_iter - 1 > 0
         THEN cfg.n_iter - cfg.last_iter - 1 ELSE 0

\* C10 as stated: a run that ends, other than by a failure of sample
\* collection or of compute_pg_vars, has run floor(steps / batch) iterations in
\* trpo and max(0, n_iter - last_iter - 1) iterations elsewhere, none of
\* them with an index at or beyond the configured count
C10_IterationCount ==
    /\ (pc = "done" \/ (pc = "raised" /\ err = "TypeError")) =>
          (iters_run = ExpectedIterations)
    /\ (iters_run > 0) =>
          updt < (IF cfg.alg = "trpo" THEN cfg.steps \div batch ELSE cfg.n_iter)

\* C11: when sample collection or compute_pg_vars raises in iteration i of
\* trpo or vanilla, the training function ends with that exception: the
\* loop body does not go on, the policy and the baseline hold the
\* parameters iteration i started with, and no snapshot exists for
\* iteration i
C11_FailureIsFatal ==
    (cfg.alg \in {"trpo", "vanilla"} /\ err \in {"CollectError", "ComputeError"}) =>
        /\ pc = "raised"
        /\ trace[Len(trace)] \in {"collect", "compute"}
        /\ policy = x0start
        /\ baseline = b0start
        /\ (updt + 1) \notin DOMAIN saved
        /\ \A k \in DOMAIN saved : saved[k].last_iter < updt

\* C11 witness: compute_pg_vars raised in the second iteration of a trpo run
\* whose first iteration changed the policy and the baseline
C11_Witness ==
    /\ cfg.alg = "trpo"
    /\ pc = "raised"
    /\ err = "ComputeError"
    /\ iters_run = 2
    /\ policy # InitParams
    /\ baseline = val_iters
    /\ DOMAIN saved = {1}

\* C12: in trpo the policy's parameters change only in a line-search trial
\* or in the final commit of the update, and the baseline's parameters only
\* in the refit loop; every other step of the iteration leaves both as
\* they are
C12_ParamsFrame ==
    [][(cfg.alg = "trpo") =>
          /\ (policy' # policy) => (pc \in {"ls_trial", "commit"})
          /\ (baseline' # baseline) => (pc = "refit")]_vars

\* C12 witness: an iteration of trpo has ended with the policy and the
\* baseline both changed
C12_Witness ==
    /\ cfg.alg = "trpo"
    /\ pc = "loop"
    /\ iters_run = 1
    /\ policy # x0start
    /\ baseline # b0start
    /\ 1 \in DOMAIN saved

\* the full step x0 - dx satisfies the KL bound and the Armijo condition:
\* as found by the first trial, or as the policy would yield when
\* line_search tries nothing
FullStepBoth ==
    \/ (Len(evals) >= 1 /\ evals[1].both)
    \/ ProbeBoth

\* C13 as stated: whenever the full step satisfies both conditions,
\* line_search returns x0 - dx after exactly one evaluation of f
C13_Original ==
    (InLineSearch /\ pc = "commit" /\ FullStepBoth) =>
        /\ Len(evals) = 1
        /\ IsCand(new_params, ls.x0, 0, ls.dx)

\* C13 (amended): when expected_improvement >= atol and the full step
\* satisfies both conditions, line_search returns x0 - dx after exactly one
\* evaluation of f
C13_FullStepOneEval ==
    (InLineSearch /\ pc = "commit" /\ XGe(ls.ei, Fin(atol)) /\ FullStepBoth) =>
        /\ Len(evals) = 1
        /\ evals[1].exp = 0
        /\ IsCand(new_params, ls.x0, 0, ls.dx)
        /\ policy = new_params

\* C13 witness: the full step was accepted by the first evaluation
C13_Witness ==
    /\ InLineSearch
    /\ pc = "commit"
    /\ XGe(ls.ei, Fin(atol))
    /\ Len(evals) = 1
    /\ evals[1].both
    /\ new_params # ls.x0

\* sqrt(2 * delta / (dFd + eps)) with eps = 1 / inv_eps, in the unit of the
\* model's scale (eps is below that unit unless dFd is zero)
ScaleAsStated(dl, c) ==
    IF IsNaN(c) THEN NaN
    ELSE IF ~IsFin(c) THEN (IF c.v > 0 THEN Fin(0) ELSE NaN)
    ELSE IF c.v = 0 THEN Fin(Isqrt(2 * dl * inv_eps))
    ELSE IF c.v < 0 THEN (IF dl = 0 THEN Fin(0) ELSE NaN)
    ELSE Fin(Isqrt((2 * dl) \div c.v))

\* C14 as stated: the scale computed by trpo and tnpg is
\* sqrt(2 * delta / (d.F(d) + eps)) for every delta and every curvature
\* d.F(d), zero included
C14_ScaleFormula ==
    (cfg.alg \in {"trpo", "tnpg"} /\ scale.set) =>
        scale.s = ScaleAsStated(cfg.delta, scale.dFd)

\* C15: in trpo, tnpg and natural the subsample for the Fisher-vector
\* product is drawn once per iteration, with int(kl_frac * len(all_obs))
\* observations, and every call of F_0 of that iteration (those of the
\* conjugate-gradient solve and the one for the scale) uses it
C15_OneSubsample ==
    /\ [](fvp.n > 0 =>
            /\ fvp.cg = {subsamp_obs}
            /\ fvp.obs = subsamp_obs
            /\ subsamp_obs \in Subsamples(cfg.kl_frac, all_obs))
    /\ [][(subsamp_obs # {}) => (subsamp_obs' \in {subsamp_obs, {}})]_vars

\* C15 witness: the calls of F_0 of an iteration were made on a proper
\* subsample of the batch
C15_Witness ==
    /\ cfg.alg \in {"trpo", "tnpg", "natural"}
    /\ fvp.n >= cg_iters
    /\ fvp.cg = {subsamp_obs}
    /\ subsamp_obs # {}
    /\ subsamp_obs # all_obs

\* trpo and vanilla call logger.save_state in every iteration, tnpg and
\* natural call snapshot_saver.save_state when a snapshot_saver is given
SaveCallIssued == cfg.alg \in {"trpo", "vanilla"} \/ cfg.saver

StoredNow(store) ==
    /\ DOMAIN store = (DOMAIN saved) \cup {LastIndex}
    /\ store[LastIndex].policy = policy
    /\ store[LastIndex].baseline = baseline
    /\ \A k \in (DOMAIN saved) \ {LastIndex} : store[k] = saved[k]

GaeRunning == rollout # NoRollout

\* C17 as stated: with lambda = 0 the advantage of every step t is
\* r_t + gamma * V(s_{t+1}) - V(s_t), whatever the done flags are
C17_Original ==
    (GaeRunning /\ rollout.lam.num = 0) =>
        \A t \in (gae_t + 1)..Horizon(rollout) :
            adv[t] = (rollout.r[t] * rollout.gamma.den
                        + rollout.gamma.num * rollout.v[t + 1]
                        - rollout.v[t] * rollout.gamma.den)
                     * (AdvUnit(rollout) \div rollout.gamma.den)

\* C17 (amended): with lambda = 0 the advantage of every step t is
\* r_t + gamma * V(s_{t+1}) - V(s_t) when done_t is false and r_t - V(s_t)
\* when done_t is true
C17_TDZeroLambda ==
    (GaeRunning /\ rollout.lam.num = 0) =>
        \A t \in (gae_t + 1)..Horizon(rollout) :
            adv[t] = (rollout.r[t] * rollout.gamma.den
                        + (IF rollout.done[t] THEN 0
                           ELSE rollout.gamma.num * rollout.v[t + 1])
                        - rollout.v[t] * rollout.gamma.den)
                     * (AdvUnit(rollout) \div rollout.gamma.den)

\* C17 witness: the walk over a segment of MaxT steps with lambda = 0 is
\* over, the segment has an episode end before its last step and the
\* advantage after it is not zero
C17_Witness ==
    /\ GaeRunning
    /\ rollout.lam.num = 0
    /\ Horizon(rollout) = MaxT
    /\ gae_t = 0
    /\ rollout.done[1]
    /\ ~rollout.done[2]
    /\ adv[2] # 0
    /\ adv[1] # 0

\* transitions of one full rollout grid: T = floor(batch / n_envs) steps of
\* N = n_envs environments
GridSize == (batch \div n_envs) * n_envs

\* C18: the TotalNSamples value trpo writes at the end of iteration i is
\* (i + 1) * T * N, a multiple of n_envs, and it is larger than the value
\* written by the iteration before when batch >= n_envs
C18_TotalNSamples ==
    /\ []((cfg.alg = "trpo" /\ "TotalNSamples" \in DOMAIN dumped) =>
            LET i == IF pc \in {"save", "loop", "done"} \/ err = "SaveError"
                     THEN updt ELSE updt - 1
                n == dumped["TotalNSamples"]
            IN /\ IsFin(n)
               /\ n.v = (i + 1) * GridSize
               /\ n.v % n_envs = 0)
    /\ [][(cfg.alg = "trpo" /\ pc = "log" /\ "TotalNSamples" \in DOMAIN dumped
             /\ batch >= n_envs) =>
              dumped'["TotalNSamples"].v > dumped["TotalNSamples"].v]_vars

\* C18 witness: the second iteration of a trpo run has written its
\* diagnostics
C18_Witness ==
    /\ cfg.alg = "trpo"
    /\ pc = "save"
    /\ updt = 1
    /\ "TotalNSamples" \in DOMAIN dumped
    /\ dumped["TotalNSamples"] = Fin(2 * GridSize)

\* an argument with '--' in front of it
StartsWithDashes(arg) == Len(arg) >= 2 /\ arg[1] = "-" /\ arg[2] = "-"

\* the flag an argument at position j belongs to, when the flags are the
\* arguments with '--' in front: 0 when no flag precedes it
RECURSIVE FlagBefore(_)
FlagBefore(j) ==
    IF j = 0 THEN 0
    ELSE IF StartsWithDashes(args[j]) THEN j
    ELSE FlagBefore(j - 1)

\* the values among the first n arguments that follow an occurrence of the
\* flag named key, in order
RECURSIVE ValuesOf(_, _)
ValuesOf(key, n) ==
    IF n = 0 THEN <<>>
    ELSE IF ~StartsWithDashes(args[n]) /\ FlagBefore(n) > 0
            /\ lstrip(args[FlagBefore(n)]) = key
         THEN Append(ValuesOf(key, n - 1), process(args[n]))
         ELSE ValuesOf(key, n - 1)

\* C19 as stated: after the first pass the keys of arg_dict are the names
\* of the arguments that have '--' in front of them, and each key maps to
\* all the other arguments that followed an occurrence of that flag up to
\* the next flag, in order
C19_FlagsAndValues ==
    (parse_pc = "second") =>
        /\ DOMAIN arg_dict =
              {lstrip(args[j]) : j \in {i \in 1..Len(args) : StartsWithDashes(args[i])}}
        /\ \A key \in DOMAIN arg_dict : arg_dict[key] = ValuesOf(key, Len(args))

\* the keys of the calls, each once, in the order of their first call
RECURSIVE KeysInOrder(_, _)
KeysInOrder(calls, n) ==
    IF n = 0 THEN <<>>
    ELSE LET before == KeysInOrder(calls, n - 1)
         IN IF \E i \in 1..Len(before) : before[i] = calls[n].key
            THEN before ELSE Append(before, calls[n].key)

\* the value of the last call made with key
LastValue(calls, key) ==
    calls[CHOOSE i \in 1..Len(calls) :
             /\ calls[i].key = key
             /\ \A j \in (i + 1)..Len(calls) : calls[j].key # key].val

\* one entry per distinct key logged, with the value of its last logkv, in
\* first-insertion order
EntriesOf(calls) ==
    LET keys == KeysInOrder(calls, Len(calls))
    IN [i \in 1..Len(keys) |-> [key |-> keys[i], val |-> LastValue(calls, keys[i])]]

\* the entries as an output format shows them: shortened keys and rounded
\* numbers in the table, keys and values as they are in JSON
Shown(fmt, entries) ==
    [i \in 1..Len(entries) |->
        IF fmt = "human"
        THEN [key |-> truncate(entries[i].key), val |-> FormatG(entries[i].val)]
        ELSE entries[i]]

\* C20 as stated: a dumpkvs that follows at least one logkv writes to every
\* output format one entry per distinct key logged since the previous
\* dumpkvs, with the value of the last logkv for the key, in first-insertion
\* order, and leaves no diagnostics behind
C20_DumpWritesAll ==
    [][(since # <<>> /\ since' = <<>>) =>
          /\ \A f \in 1..Len(output_formats) :
                written'[f] = Shown(output_formats[f], EntriesOf(since))
          /\ od_name2val' = <<>>]_vars

\* ------------------------------------------------------------------------
\* Logger sessions (utils/logger.py): Logger.CURRENT, the session context
\* manager and the module-level functions that forward to Logger.CURRENT
\* ------------------------------------------------------------------------
MaxLoggers == 2

\* keys handed to the module-level logkv
SessKeys == {"a"}

\* Logger.DEFAULT is the first Logger constructed, when the module is loaded
DEFAULT == 1

DEBUG == 10
INFO == 20
WARN == 30
ERROR == 40

\* levels handed to set_level
LevelVals == {INFO, WARN}
\* level of a message: log(..., level=...), debug, info, warn and error
LogLevels == {DEBUG, INFO, WARN, ERROR}

\* Logger.__init__: the saver is a SnapshotSaver when a path is given and a
\* Nop otherwise; logged: a message was written to the output formats
NewLogger(has_path) ==
    [path |-> has_path, name2val |-> {}, wrote |-> {}, logged |-> FALSE,
     snap |-> FALSE, level |-> INFO]

InitSession ==
    /\ MainIdle
    /\ GaeIdle
    /\ ParseIdle
    /\ LoggerIdle
    /\ ReplayIdle
    /\ CallIdle
    /\ SearchIdle
    /\ sess_loggers = <<NewLogger(FALSE)>>
    /\ CURRENT = DEFAULT
    /\ blocks = <<>>
    /\ acted = 0
    /\ sess_pc = "run"

\* session(path=...).__enter__: a new Logger becomes Logger.CURRENT
session_enter ==
    /\ sess_pc = "run"
    /\ Len(sess_loggers) - 1 < MaxLoggers
    /\ sess_loggers' = Append(sess_loggers, NewLogger(TRUE))
    /\ CURRENT' = Len(sess_loggers) + 1
    /\ blocks' = Append(blocks, Len(sess_loggers) + 1)
    /\ acted' = 0
    /\ UNCHANGED <<sess_pc, mainv, gaev, parsev, loggerv, replayv, callv,
                   searchv>>

\* session.__exit__ of the innermost active block, on leaving it normally or
\* with an exception: Logger.CURRENT.close() closes no file (no output format
\* overrides OutputFormat.close), then Logger.CURRENT = Logger.DEFAULT
session_exit ==
    /\ sess_pc \in {"run", "raised"}
    /\ blocks # <<>>
    /\ CURRENT' = DEFAULT
    /\ blocks' = SubSeq(blocks, 1, Len(blocks) - 1)
    /\ acted' = 0
    /\ UNCHANGED <<sess_loggers, sess_pc, mainv, gaev, parsev, loggerv,
                   replayv, callv,
                   searchv>>

\* logger.logkv(key, val)
module_logkv ==
    /\ sess_pc = "run"
    /\ \E key \in SessKeys :
          sess_loggers' = [sess_loggers EXCEPT ![CURRENT].name2val = @ \cup {key}]
    /\ acted' = CURRENT
    /\ UNCHANGED <<CURRENT, blocks, sess_pc, mainv, gaev, parsev, loggerv,
                   replayv, callv,
                   searchv>>

\* logger.dumpkvs(): DEFAULT and the Loggers of sessions with the default
\* formats have a HumanOutputFormat, whose writekvs raises when nothing was
\* logged
module_dumpkvs ==
    /\ sess_pc = "run"
    /\ IF sess_loggers[CURRENT].name2val = {}
       THEN /\ sess_pc' = "raised"
            /\ UNCHANGED sess_loggers
       ELSE /\ sess_loggers' = [sess_loggers EXCEPT
                                   ![CURRENT].wrote = sess_loggers[CURRENT].name2val,
                                   ![CURRENT].name2val = {}]
            /\ UNCHANGED sess_pc
    /\ acted' = CURRENT
    /\ UNCHANGED <<CURRENT, blocks, mainv, gaev, parsev, loggerv, replayv,
                   callv,
                   searchv>>

\* logger.log(*args, level=level), and debug, info, warn, error: the
\* message is written `if self.level <= level`
module_log ==
    /\ sess_pc = "run"
    /\ \E level \in LogLevels :
          sess_loggers' = [sess_loggers EXCEPT
              ![CURRENT].logged = @ \/ (sess_loggers[CURRENT].level <= level)]
    /\ acted' = CURRENT
    /\ UNCHANGED <<CURRENT, blocks, sess_pc, mainv, gaev, parsev, loggerv,
                   replayv, callv,
                   searchv>>

\* logger.save_state(index, state): the saver of a Logger without a path is a
\* Nop
module_save_state ==
    /\ sess_pc = "run"
    /\ sess_loggers' = [sess_loggers EXCEPT
                           ![CURRENT].snap = @ \/ sess_loggers[CURRENT].path]
    /\ acted' = CURRENT
    /\ UNCHANGED <<CURRENT, blocks, sess_pc, mainv, gaev, parsev, loggerv,
                   replayv, callv,
                   searchv>>

\* logger.set_level(level)
module_set_level ==
    /\ sess_pc = "run"
    /\ \E level \in LevelVals :
          sess_loggers' = [sess_loggers EXCEPT ![CURRENT].level = level]
    /\ acted' = CURRENT
    /\ UNCHANGED <<CURRENT, blocks, sess_pc, mainv, gaev, parsev, loggerv,
                   replayv, callv,
                   searchv>>

NextSession ==
    \/ module_set_level
    \/ session_enter
    \/ session_exit
    \/ module_logkv
    \/ module_dumpkvs
    \/ module_log
    \/ module_save_state

SpecSession == InitSession /\ [][NextSession]_vars

\* the Logger made by the innermost active with-block, DEFAULT outside of
\* every block
BlockLogger == IF blocks = <<>> THEN DEFAULT ELSE blocks[Len(blocks)]

\* C21: a module-level logging function called while a session's with-block
\* is active acts on the Logger made by that session's __enter__, and on
\* Logger.DEFAULT once every block has exited, whatever enters and exits
\* came before
C21_SessionLogger == (acted # 0) => (acted = BlockLogger)

\* ------------------------------------------------------------------------
\* ReplayBuffer (algorithms/ddpg.py)
\* ------------------------------------------------------------------------
MaxSize == 3
MaxStores == 7

\* a transition (ob1, act, rew, ob2, done), told apart by its reward
TransVals == {0, 1}

\* what a slot of torch.empty may hold before it is written: any value, one
\* of a transition's or another
EmptyVals == TransVals \cup {9}

NoDataset == [set |-> FALSE, rows |-> <<>>]

min(a, b) == IF a <= b THEN a ELSE b

\* self.ptr = (self.ptr+1) % self.max_size
NextPtr(p, m) == (p + 1) % m

\* mutant: the size counts every store
NextSize_uncapped(sz, m) == sz + 1
\* self.size = min(self.size + 1, self.max_size)
NextSize(sz, m) == min(sz + 1, m)

\* mutant: the dataset is built from every slot
Dataset_all(data, sz) == data
\* self.all_obs1[:self.size], ...: slot j of the code is row j + 1 here
Dataset(data, sz) == SubSeq(data, 1, sz)

\* ReplayBuffer.__init__
InitReplay ==
    /\ MainIdle
    /\ GaeIdle
    /\ ParseIdle
    /\ LoggerIdle
    /\ SessionIdle
    /\ CallIdle
    /\ SearchIdle
    /\ max_size \in 1..MaxSize
    /\ all_data \in [1..max_size -> EmptyVals]
    /\ ptr = 0
    /\ size = 0
    /\ tags = [j \in 1..max_size |-> 0]
    /\ stored = <<>>
    /\ dataset = NoDataset
    /\ rb_pc = "run"

\* ReplayBuffer.store
store ==
    /\ rb_pc = "run"
    /\ Len(stored) < MaxStores
    /\ \E tr \in TransVals :
          /\ all_data' = [all_data EXCEPT ![ptr + 1] = tr]
          /\ stored' = Append(stored, tr)
    /\ tags' = [tags EXCEPT ![ptr + 1] = Len(stored) + 1]
    /\ ptr' = NextPtr(ptr, max_size)
    /\ size' = NextSize(size, max_size)
    /\ dataset' = NoDataset
    /\ UNCHANGED <<max_size, rb_pc, mainv, gaev, parsev, loggerv, sessionv,
                   callv,
                   searchv>>

\* ReplayBuffer.sampler, called as ddpg calls it, after transitions were
\* stored: the rows the loader draws from
sampler ==
    /\ rb_pc = "run"
    /\ size > 0
    /\ dataset' = [set |-> TRUE, rows |-> Dataset(all_data, size)]
    /\ UNCHANGED <<ptr, size, max_size, all_data, tags, stored, rb_pc, mainv,
                   gaev, parsev, loggerv, sessionv, callv,
                   searchv>>

NextReplay ==
    \/ store
    \/ sampler

SpecReplay == InitReplay /\ [][NextReplay]_vars

\* C22: after k store calls 0 <= ptr < max_size, size = min(k, max_size) and
\* ptr = k mod max_size; size never decreases and never exceeds max_size
C22_PtrAndSize ==
    /\ [](rb_pc = "run" =>
            /\ 0 <= ptr
            /\ ptr < max_size
            /\ size = min(Len(stored), max_size)
            /\ ptr = Len(stored) % max_size
            /\ size <= max_size)
    /\ [][size' >= size]_vars

\* more stores than slots: the pointer has wrapped and stands inside the buffer
C22_Witness ==
    /\ rb_pc = "run"
    /\ Len(stored) > max_size
    /\ max_size > 1
    /\ ptr > 0

\* numbers of the min(k, max_size) latest store calls
Recent ==
    (Len(stored) - min(Len(stored), max_size) + 1)..Len(stored)

\* the slot the next store writes holds the oldest transition of the buffer
OverwritesOldest ==
    (size = max_size /\ stored' # stored)
        => \A j \in 1..max_size : tags[ptr + 1] <= tags[j]

\* C23: slots 0..size-1, and the rows of a dataset built by sampler, hold
\* exactly the min(k, max_size) latest stored transitions; no slot that was
\* never written is among them, and a store into a full buffer overwrites
\* the oldest stored transition
C23_LatestTransitions ==
    /\ [](rb_pc = "run" =>
            /\ \A j \in 1..size : tags[j] >= 1 /\ all_data[j] = stored[tags[j]]
            /\ {tags[j] : j \in 1..size} = Recent
            /\ dataset.set =>
                  /\ Len(dataset.rows) = size
                  /\ \A j \in 1..Len(dataset.rows) :
                        /\ j <= size
                        /\ tags[j] >= 1
                        /\ dataset.rows[j] = stored[tags[j]])
    /\ [][OverwritesOldest]_vars

\* a dataset built after the oldest transitions were overwritten
C23_Witness ==
    /\ rb_pc = "run"
    /\ dataset.set
    /\ Len(stored) > max_size
    /\ max_size > 1

\* ------------------------------------------------------------------------
\* Construction of policy, baseline and optimizer from the mappings handed
\* to vanilla and trpo (algorithms/vanilla.py, algorithms/trpo.py)
\* ------------------------------------------------------------------------
MaxCalls == 2

\* mappings with a 'class' entry and, some of them, one keyword argument
Maps(classes) ==
    {[k \in {"class"} |-> c] : c \in classes}
        \cup {[k \in {"class", "kw"} |-> IF k = "class" THEN c ELSE "x"] :
                c \in classes}

PolicyMaps == Maps({"MlpPolicy", "CnnPolicy"})
BaselineMaps == Maps({"MlpBaseline", "ZeroBaseline"})
OptimizerMaps == Maps({"Adam", "SGD"})
QFuncMaps == {[k \in {"class"} |-> "ContinuousQFunction"]}

\* optimizer={'class': torch.optim.Adam}, evaluated once, when vanilla is
\* defined
DefaultOptimizer == [k \in {"class"} |-> "Adam"]

\* dict.pop(key): the mapping that is left
pop(mp, key) == [k \in (DOMAIN mp) \ {key} |-> mp[k]]

\* mp.pop('class')(..., **mp): the class constructed and the mapping left to
\* the caller, or KeyError with the mapping as it was
Construct(mp) ==
    IF "class" \in DOMAIN mp
    THEN [ok |-> TRUE, cls |-> mp["class"], left |-> pop(mp, "class")]
    ELSE [ok |-> FALSE, cls |-> "KeyError", left |-> mp]

\* same as Construct when the statement is not reached
NotReached(mp) == [ok |-> FALSE, cls |-> "KeyError", left |-> mp]

InitCall ==
    /\ MainIdle
    /\ GaeIdle
    /\ ParseIdle
    /\ LoggerIdle
    /\ SessionIdle
    /\ ReplayIdle
    /\ SearchIdle
    /\ kw_policy \in PolicyMaps
    /\ kw_baseline \in BaselineMaps
    /\ kw_optimizer \in OptimizerMaps
    /\ kw_q_func \in QFuncMaps
    /\ call_path \in BOOLEAN
    /\ vanilla_defaults = DefaultOptimizer
    /\ call_log = <<>>
    /\ call_pc = "run"

\* vanilla(env_maker, policy, baseline[, optimizer=...]) up to the main loop:
\* logger.save_config(locals()), then the three constructions; given: the
\* arguments as written in the call
vanilla_call ==
    /\ call_pc = "run"
    /\ Len(call_log) < MaxCalls
    /\ \E dflt \in BOOLEAN :
          LET optimizer == IF dflt THEN vanilla_defaults ELSE kw_optimizer
              cfg_ok == ~SaveConfigRaises(call_path)
              p == IF cfg_ok THEN Construct(kw_policy)
                             ELSE NotReached(kw_policy)
              b == IF p.ok THEN Construct(kw_baseline)
                           ELSE NotReached(kw_baseline)
              o == IF b.ok THEN Construct(optimizer) ELSE NotReached(optimizer)
          IN /\ kw_policy' = p.left
             /\ kw_baseline' = b.left
             /\ IF dflt
                THEN vanilla_defaults' = o.left /\ UNCHANGED kw_optimizer
                ELSE kw_optimizer' = o.left /\ UNCHANGED vanilla_defaults
             /\ call_log' = Append(call_log,
                   [alg |-> "vanilla", dflt |-> dflt,
                    given |-> <<kw_policy, kw_baseline,
                                IF dflt THEN <<>> ELSE kw_optimizer>>,
                    before |-> <<kw_policy, kw_baseline, optimizer>>,
                    after |-> <<p.left, b.left, o.left>>,
                    built |-> IF o.ok THEN <<p.cls, b.cls, o.cls>>
                              ELSE IF cfg_ok THEN <<"KeyError">>
                              ELSE <<"TypeError">>])
             /\ call_pc' = IF o.ok THEN "run" ELSE "raised"
    /\ UNCHANGED <<kw_q_func, call_path, mainv, gaev, parsev, loggerv,
                   sessionv, replayv,
                   searchv>>

\* trpo(env_maker, policy, baseline) up to the main loop, for a baseline
\* that is given: logger.save_config(locals()), then the two constructions
trpo_call ==
    /\ call_pc = "run"
    /\ Len(call_log) < MaxCalls
    /\ LET cfg_ok == ~SaveConfigRaises(call_path)
           p == IF cfg_ok THEN Construct(kw_policy) ELSE NotReached(kw_policy)
           b == IF p.ok THEN Construct(kw_baseline)
                        ELSE NotReached(kw_baseline)
       IN /\ kw_policy' = p.left
          /\ kw_baseline' = b.left
          /\ call_log' = Append(call_log,
                [alg |-> "trpo", dflt |-> FALSE,
                 given |-> <<kw_policy, kw_baseline>>,
                 before |-> <<kw_policy, kw_baseline>>,
                 after |-> <<p.left, b.left>>,
                 built |-> IF b.ok THEN <<p.cls, b.cls>>
                           ELSE IF cfg_ok THEN <<"KeyError">>
                           ELSE <<"TypeError">>])
          /\ call_pc' = IF b.ok THEN "run" ELSE "raised"
    /\ UNCHANGED <<kw_optimizer, kw_q_func, call_path, vanilla_defaults, mainv,
                   gaev, parsev, loggerv, sessionv, replayv,
                   searchv>>

\* ddpg(env_maker, policy, q_func) up to its loop, for a q_func that is
\* given: pi_class = policy.pop('class'), qf_class = q_func.pop('class'),
\* then the constructions. save_config and SnapshotSaver, which ddpg calls
\* first, come from proj.common.log_utils, proj.utils.saver and baselines;
\* the action is the call in which they return
ddpg_call ==
    /\ call_pc = "run"
    /\ Len(call_log) < MaxCalls
    /\ LET p == Construct(kw_policy)
           q == IF p.ok THEN Construct(kw_q_func) ELSE NotReached(kw_q_func)
       IN /\ kw_policy' = p.left
          /\ kw_q_func' = q.left
          /\ call_log' = Append(call_log,
                [alg |-> "ddpg", dflt |-> FALSE,
                 given |-> <<kw_policy, kw_q_func>>,
                 before |-> <<kw_policy, kw_q_func>>,
                 after |-> <<p.left, q.left>>,
                 built |-> IF q.ok THEN <<p.cls, q.cls>> ELSE <<"KeyError">>])
          /\ call_pc' = IF q.ok THEN "run" ELSE "raised"
    /\ UNCHANGED <<kw_baseline, kw_optimizer, call_path, vanilla_defaults,
                   mainv, gaev, parsev, loggerv, sessionv, replayv,
                   searchv>>

\* between two calls the caller writes new mappings
new_mappings ==
    /\ call_pc = "run"
    /\ call_log # <<>>
    /\ Len(call_log) < MaxCalls
    /\ kw_policy' \in PolicyMaps
    /\ kw_baseline' \in BaselineMaps
    /\ kw_optimizer' \in OptimizerMaps
    /\ kw_q_func' \in QFuncMaps
    /\ UNCHANGED <<call_path, vanilla_defaults, call_log, call_pc, mainv, gaev,
                   parsev, loggerv, sessionv, replayv,
                   searchv>>

NextCall ==
    \/ vanilla_call
    \/ trpo_call
    \/ ddpg_call
    \/ new_mappings

SpecCall == InitCall /\ [][NextCall]_vars

\* calls of vanilla and trpo that got as far as the constructions
TrainingCalls ==
    {i \in 1..Len(call_log) :
        call_log[i].alg \in {"vanilla", "trpo"} /\ call_log[i].built # <<"TypeError">>}

\* C24: a call to vanilla or trpo leaves the mappings it receives as policy,
\* baseline and optimizer (vanilla's default optimizer mapping included) as
\* they were, and two calls of the same function with the same mappings or
\* defaults construct the same classes
C24_MappingsUnchanged ==
    /\ \A i \in TrainingCalls : call_log[i].after = call_log[i].before
    /\ \A i, j \in TrainingCalls :
          (/\ call_log[i].alg = call_log[j].alg
           /\ call_log[i].dflt = call_log[j].dflt
           /\ call_log[i].given = call_log[j].given)
              => (call_log[i].built = call_log[j].built)

\* ------------------------------------------------------------------------
\* Python floats
\* ------------------------------------------------------------------------
\* bits of the significand of a binary64, the hidden bit included
MantBits == 53
\* base of the digits of the big naturals below, 2^15: the product of two
\* digits stays a machine integer
Base == 128 * 256
\* the number of bits of a digit: Base = 2^LimbBits
LimbBits == 7 + 8

\* the element of a set of one element. {body : v \in {arg}} evaluates arg
\* once and binds v to its value, however often body uses v
The(S) == CHOOSE v \in S : TRUE

\* natural numbers of any size: digits in base Base, least significant
\* first, no leading zero digit
BnTrim(a) ==
    The({LET nz == {i \in 1..Len(v) : v[i] # 0}
         IN IF nz = {} THEN <<>>
            ELSE SubSeq(v, 1, CHOOSE i \in nz : \A j \in nz : j <= i) :
         v \in {a}})

RECURSIVE BnOf(_)
BnOf(n) == IF n = 0 THEN <<>> ELSE <<n % Base>> \o BnOf(n \div Base)

BnOne == <<1>>

\* digit i of a, 0 beyond its length
BnAt(a, i) == IF i <= Len(a) THEN a[i] ELSE 0

RECURSIVE BnCmpAt(_, _, _)
BnCmpAt(a, b, i) ==
    IF i = 0 THEN 0
    ELSE IF a[i] > b[i] THEN 1
    ELSE IF a[i] < b[i] THEN -1
    ELSE BnCmpAt(a, b, i - 1)

\* -1, 0 or 1 as a < b, a = b or a > b
BnCmp(a, b) ==
    The({IF Len(v) > Len(w) THEN 1
         ELSE IF Len(v) < Len(w) THEN -1
         ELSE BnCmpAt(v, w, Len(v)) : v \in {a}, w \in {b}})

\* the carry into digit i of a + b
RECURSIVE BnCarry(_, _, _)
BnCarry(a, b, i) ==
    IF i = 1 THEN 0
    ELSE (BnAt(a, i - 1) + BnAt(b, i - 1) + BnCarry(a, b, i - 1)) \div Base

BnAdd(a, b) ==
    The({BnTrim([i \in 1..((IF Len(v) > Len(w) THEN Len(v) ELSE Len(w)) + 1) |->
                    (BnAt(v, i) + BnAt(w, i) + BnCarry(v, w, i)) % Base]) :
         v \in {a}, w \in {b}})

\* the borrow from digit i of a - b
RECURSIVE BnBorrow(_, _, _)
BnBorrow(a, b, i) ==
    IF i = 1 THEN 0
    ELSE IF a[i - 1] - BnAt(b, i - 1) - BnBorrow(a, b, i - 1) < 0 THEN 1 ELSE 0

\* a - b for a >= b
BnSub(a, b) ==
    The({BnTrim([i \in 1..Len(v) |->
                    (v[i] - BnAt(w, i) - BnBorrow(v, w, i)) % Base]) :
         v \in {a}, w \in {b}})

\* the carry into digit i of a * k
RECURSIVE BnMulCarry(_, _, _)
BnMulCarry(a, k, i) ==
    IF i = 1 THEN 0
    ELSE (BnAt(a, i - 1) * k + BnMulCarry(a, k, i - 1)) \div Base

\* a * k for 0 <= k < Base
BnMulSmall(a, k) ==
    The({BnTrim([i \in 1..(Len(v) + 1) |->
                    (BnAt(v, i) * c + BnMulCarry(v, c, i)) % Base]) :
         v \in {a}, c \in {k}})

RECURSIVE Zeros(_)
Zeros(n) == IF n = 0 THEN <<>> ELSE <<0>> \o Zeros(n - 1)

\* a * Base^n
BnShlDigits(a, n) == The({IF v = <<>> THEN v ELSE Zeros(n) \o v : v \in {a}})

\* a * (the digits i.. of b)
RECURSIVE BnMulFrom(_, _, _)
BnMulFrom(a, b, i) ==
    IF i > Len(b) THEN <<>>
    ELSE BnAdd(BnMulSmall(a, b[i]), BnShlDigits(BnMulFrom(a, b, i + 1), 1))

BnMul(a, b) == The({BnMulFrom(v, w, 1) : v \in {a}, w \in {b}})

RECURSIVE BnPow(_, _)
BnPow(a, x) == IF x = 0 THEN BnOne ELSE BnMul(a, BnPow(a, x - 1))

RECURSIVE BitLen(_)
BitLen(n) == IF n = 0 THEN 0 ELSE 1 + BitLen(n \div 2)

BnBitLen(a) ==
    The({IF v = <<>> THEN 0 ELSE LimbBits * (Len(v) - 1) + BitLen(v[Len(v)]) :
         v \in {a}})

\* a * 2^k
BnShl(a, k) == BnShlDigits(BnMulSmall(a, Pow(2, k % LimbBits)), k \div LimbBits)

\* a \div 2^k
BnShr(a, k) ==
    The({LET d == c \div LimbBits
             s == c % LimbBits
         IN IF d >= Len(v) THEN <<>>
            ELSE BnTrim([i \in 1..(Len(v) - d) |->
                            (v[i + d] \div Pow(2, s))
                            + (BnAt(v, i + d + 1) % Pow(2, s))
                              * Pow(2, LimbBits - s)]) :
         v \in {a}, c \in {k}})

\* a % 2^k = 0
BnLowZero(a, k) == The({BnShl(BnShr(v, k), k) = v : v \in {a}})

\* the digit qd of a quotient and qd * b, given a digit qh >= qd and
\* t = qh * b: the largest qd with qd * b <= r
RECURSIVE BnDigit(_, _, _, _)
BnDigit(qh, t, b, r) ==
    The({IF BnCmp(u, r) > 0 THEN BnDigit(h - 1, BnSub(u, b), b, r)
         ELSE [qd |-> h, t |-> u] : h \in {qh}, u \in {t}})

\* one step of the long division of a by b: from the quotient and the
\* remainder top of the digits above j, those of the digits j.. of a
BnDivStep(a, b, j, top) ==
    The({LET n == Len(b)
             hi == (IF Len(r1) > n THEN r1[n + 1] * Base ELSE 0)
                   + (IF Len(r1) >= n THEN r1[n] ELSE 0)
             qh == IF hi \div b[n] >= Base THEN Base - 1 ELSE hi \div b[n]
         IN The({[q |-> <<d.qd>> \o top.q, r |-> BnSub(r1, d.t)] :
                 d \in {BnDigit(qh, BnMulSmall(b, qh), b, r1)}}) :
         r1 \in {BnTrim(<<a[j]>> \o top.r)}})

\* long division, one digit of a at a time from the top: quotient and
\* remainder of the digits j.. of a by b, the top digit of b at least
\* Base / 2
RECURSIVE BnDivFrom(_, _, _)
BnDivFrom(a, b, j) ==
    IF j > Len(a) THEN [q |-> <<>>, r |-> <<>>]
    ELSE The({BnDivStep(a, b, j, top) : top \in {BnDivFrom(a, b, j + 1)}})

\* quotient and remainder of a by b, b > 0
BnDivMod(a, b) ==
    The({LET s == LimbBits - BitLen(w[Len(w)])
         IN The({[q |-> BnTrim(d.q), r |-> BnShr(d.r, s)] :
                 d \in {The({BnDivFrom(x, y, 1) :
                             x \in {BnShl(v, s)}, y \in {BnShl(w, s)}})}}) :
         v \in {a}, w \in {b}})

\* Python floats: IEEE-754 binary64. A finite float is sg * m * 2^e with m
\* of exactly MantBits bits, or zero; the sizes that overflow or are
\* subnormal are outside the values line_search is run on here
FZero == [k |-> "dbl", sg |-> 0, m |-> <<>>, e |-> 0]

\* the quotient big.q, of MantBits + 1 bits or one more, rounded to
\* MantBits bits, ties to even; big.r # <<>> when bits were lost below it
RoundBits(big, e1) ==
    The({LET low == big.q[1] % Pow(2, sh)
             half == Pow(2, sh - 1)
         IN The({LET up == \/ low > half
                           \/ low = half /\ (big.r # <<>> \/ m0[1] % 2 = 1)
                 IN The({IF BnBitLen(m1) > MantBits
                         THEN [k |-> "dbl", sg |-> 1, m |-> BnShr(m1, 1),
                               e |-> e1 + sh + 1]
                         ELSE [k |-> "dbl", sg |-> 1, m |-> m1, e |-> e1 + sh] :
                         m1 \in {IF up THEN BnAdd(m0, BnOne) ELSE m0}}) :
                 m0 \in {BnShr(big.q, sh)}}) :
         sh \in {BnBitLen(big.q) - MantBits}})

\* the float nearest to (p / q) * 2^e0, ties to even; p, q > 0
RoundPos(p, q, e0) ==
    The({LET k == MantBits + 1 - (BnBitLen(v) - BnBitLen(w))
         IN The({RoundBits(big, e0 - k) :
                 big \in {IF w = BnOne /\ k < 0
                          THEN [q |-> BnShr(v, 0 - k),
                                r |-> IF BnLowZero(v, 0 - k)
                                      THEN <<>> ELSE BnOne]
                          ELSE BnDivMod(IF k >= 0 THEN BnShl(v, k) ELSE v,
                                        IF k >= 0 THEN w ELSE BnShl(w, 0 - k))}}) :
         v \in {p}, w \in {q}})

FSign(a, s) == [a EXCEPT !.sg = s]

FNeg(a) == [a EXCEPT !.sg = 0 - a.sg]

\* the float n * 2^x for an integer n > 0
Dyadic(n, x) == RoundPos(BnOf(n), BnOne, x)

\* the float nearest to n / den for integers n and den > 0: what a decimal
\* literal such as 0.1 or 1e-7 denotes
Rat(n, den) ==
    IF n = 0 THEN FZero
    ELSE IF n > 0 THEN RoundPos(BnOf(n), BnOf(den), 0)
    ELSE FSign(RoundPos(BnOf(0 - n), BnOf(den), 0), -1)

\* a * b
FMul(a, b) ==
    The({IF v.sg = 0 \/ w.sg = 0 THEN FZero
         ELSE FSign(RoundPos(BnMul(v.m, w.m), BnOne, v.e + w.e), v.sg * w.sg) :
         v \in {a}, w \in {b}})

\* a / b, b # 0
FDiv(a, b) ==
    The({IF v.sg = 0 THEN FZero
         ELSE FSign(RoundPos(v.m, w.m, v.e - w.e), v.sg * w.sg) :
         v \in {a}, w \in {b}})

\* a + b for a, b # 0, their significands x and y aligned at the exponent lo
FAddAligned(a, b, x, y, lo) ==
    The({IF a.sg = b.sg THEN FSign(RoundPos(BnAdd(x, y), BnOne, lo), a.sg)
         ELSE IF c = 0 THEN FZero
         ELSE IF c > 0 THEN FSign(RoundPos(BnSub(x, y), BnOne, lo), a.sg)
         ELSE FSign(RoundPos(BnSub(y, x), BnOne, lo), b.sg) :
         c \in {BnCmp(x, y)}})

\* a + b
FAdd(a, b) ==
    The({IF v.sg = 0 THEN w
         ELSE IF w.sg = 0 THEN v
         ELSE LET lo == IF v.e <= w.e THEN v.e ELSE w.e
              IN The({FAddAligned(v, w, x, y, lo) :
                      x \in {BnShl(v.m, v.e - lo)},
                      y \in {BnShl(w.m, w.e - lo)}}) :
         v \in {a}, w \in {b}})

\* a - b
FSub(a, b) == FAdd(a, FNeg(b))

\* a >= b
FGe(a, b) == FSub(a, b).sg >= 0

\* a ** x for a > 0 and an integer x >= 0
FPow(a, x) ==
    The({IF x = 0 THEN RoundPos(BnOne, BnOne, 0)
         ELSE RoundPos(BnPow(v.m, x), BnOne, v.e * x) : v \in {a}})

\* the largest float below a, a > 0
FPred(a) ==
    The({IF BnBitLen(BnSub(v.m, BnOne)) < MantBits
         THEN [v EXCEPT !.m = BnSub(BnShl(v.m, 1), BnOne), !.e = v.e - 1]
         ELSE [v EXCEPT !.m = BnSub(v.m, BnOne)] : v \in {a}})

\* +inf, -inf and nan
FInf == [k |-> "inf", sg |-> 1, m |-> <<>>, e |-> 0]
FNInf == [k |-> "inf", sg |-> -1, m |-> <<>>, e |-> 0]
FNan == [k |-> "nan", sg |-> 0, m |-> <<>>, e |-> 0]

\* a - b, infinities and nan included
ESub(a, b) ==
    IF a.k = "nan" \/ b.k = "nan" THEN FNan
    ELSE IF a.k = "dbl" /\ b.k = "dbl" THEN FSub(a, b)
    ELSE IF a.k = "dbl" THEN FNeg(b)
    ELSE IF b.k = "dbl" THEN a
    ELSE IF a.sg = b.sg THEN FNan
    ELSE a

\* a >= b, infinities and nan included; every comparison with nan is false
EGe(a, b) ==
    IF a.k = "nan" \/ b.k = "nan" THEN FALSE
    ELSE IF a.k = "dbl" /\ b.k = "dbl" THEN FGe(a, b)
    ELSE IF a.k = "inf" THEN (a.sg = 1 \/ (b.k = "inf" /\ b.sg = -1))
    ELSE b.sg = -1

\* a * b, infinities and nan included
EMul(a, b) ==
    IF a.k = "nan" \/ b.k = "nan" THEN FNan
    ELSE IF a.k = "dbl" /\ b.k = "dbl" THEN FMul(a, b)
    ELSE IF a.sg = 0 \/ b.sg = 0 THEN FNan
    ELSE FSign(FInf, a.sg * b.sg)

\* a / b for b # 0, infinities and nan included
EDiv(a, b) ==
    IF a.k = "nan" \/ b.k = "nan" THEN FNan
    ELSE IF a.k = "inf" /\ b.k = "inf" THEN FNan
    ELSE IF a.k = "inf" THEN FSign(a, a.sg * b.sg)
    ELSE IF b.k = "inf" THEN FZero
    ELSE FDiv(a, b)

\* ------------------------------------------------------------------------
\* line_search on Python floats
\* ------------------------------------------------------------------------

\* the defaults of line_search, as the floats their literals denote
accept_ratio == Rat(accept_num, accept_den)
backtrack_ratio == Rat(ratio_num, ratio_den)
\* atol is held in units of 1e-8
atol_float == Rat(atol, 100000000)

\* y0 = None
NoY0 == [k |-> "none", sg |-> 0, m |-> <<>>, e |-> 0]

\* expected_improvement: 0.7, 3e-7, 211.0, 0.5, 1e-8 (below atol), -0.5,
\* +inf and nan
SearchEiVals ==
    {Rat(7, 10), Rat(3, 10000000), Rat(211, 1), Rat(1, 2),
     Rat(1, 100000000), Rat(-1, 2), FInf, FNan}

\* what f returns: a loss, among them 3e-8, two float32 values such as
\* surr_loss.item() yields (8.642560005187988 and 5.187986928945065e-09)
\* and the smallest improvement the Armijo test accepts for an expected
\* improvement of 0.7; +inf as f_barrier returns it, -inf and nan
SearchLossVals ==
    {FZero, Rat(3, 100000000), Rat(1, 1), Dyadic(9062381, -20),
     Dyadic(11682308, -51), FMul(Rat(7, 10), accept_ratio),
     FInf, FNInf, FNan}

\* y0 as the caller passes it: None or a loss
SearchY0Vals == {NoY0} \cup (SearchLossVals \ {FNInf, FNan})

InitSearch ==
    /\ search_ei \in SearchEiVals
    /\ search_y0 \in SearchY0Vals
    /\ search_exp = 0
    /\ search_calls = 0
    /\ search_log = <<>>
    /\ search_ret = "none"
    /\ search_pc = "begin"
    /\ MainIdle
    /\ GaeIdle
    /\ ParseIdle
    /\ LoggerIdle
    /\ SessionIdle
    /\ ReplayIdle
    /\ CallIdle

\* logger.logkv(key, val): the calls line_search has made, in order
SearchLogKV(log, key, val) == Append(log, [key |-> key, val |-> val])

\* mutant: the accepted trial records a ratio of zero
RecordAccepted_zero(log, eir, actual) ==
    SearchLogKV(SearchLogKV(SearchLogKV(log,
        "ExpectedImprovement", eir),
        "ActualImprovement", actual),
        "ImprovementRatio", FZero)

\* the three logkv calls of an accepted trial; eir is the float
\* expected_improvement * ratio, and the ratio recorded is the float
\* quotient actual_improvement / (expected_improvement * ratio)
RecordAccepted(log, eir, actual) ==
    SearchLogKV(SearchLogKV(SearchLogKV(log,
        "ExpectedImprovement", eir),
        "ActualImprovement", actual),
        "ImprovementRatio", EDiv(actual, eir))

\* the three logkv calls after the loop
RecordRejected(log, ei) ==
    SearchLogKV(SearchLogKV(SearchLogKV(log,
        "ExpectedImprovement", ei),
        "ActualImprovement", FZero),
        "ImprovementRatio", FZero)

\* if y0 is None: y0 = f(x0); if expected_improvement >= atol: the loop
\* over range(max_backtracks) is entered
SearchBegin ==
    /\ search_pc = "begin"
    /\ IF search_y0 = NoY0
       THEN /\ \E y \in SearchLossVals : search_y0' = y
            /\ search_calls' = search_calls + 1
       ELSE UNCHANGED <<search_y0, search_calls>>
    /\ search_pc' = IF EGe(search_ei, atol_float) /\ max_backtracks > 0
                    THEN "trial" ELSE "reject"
    /\ UNCHANGED <<search_ei, search_exp, search_log, search_ret, mainv,
                   gaev, parsev, loggerv, sessionv, replayv, callv>>

\* one pass of the loop body: ratio = backtrack_ratio ** exp, y = f(x),
\* actual_improvement = y0 - y, the Armijo test on
\* expected_improvement * ratio * accept_ratio, and for an accepted
\* candidate the three logkv calls and return x
SearchTrial ==
    /\ search_pc = "trial"
    /\ LET ratio == FPow(backtrack_ratio, search_exp)
           eir == EMul(search_ei, ratio)
           threshold == EMul(eir, accept_ratio)
       IN \E y \in SearchLossVals :
             LET actual_improvement == ESub(search_y0, y)
             IN IF EGe(actual_improvement, threshold)
                THEN /\ search_log' = RecordAccepted(search_log, eir,
                                                     actual_improvement)
                     /\ search_ret' = "x"
                     /\ search_pc' = "returned"
                     /\ UNCHANGED search_exp
                ELSE /\ IF search_exp + 1 < max_backtracks
                        THEN /\ search_exp' = search_exp + 1
                             /\ UNCHANGED search_pc
                        ELSE /\ search_pc' = "reject"
                             /\ UNCHANGED search_exp
                     /\ UNCHANGED <<search_log, search_ret>>
    /\ search_calls' = search_calls + 1
    /\ UNCHANGED <<search_ei, search_y0, mainv, gaev, parsev, loggerv,
                   sessionv, replayv, callv>>

\* after the loop, or when it was not entered: the three logkv calls with
\* 0. and return x0
SearchReject ==
    /\ search_pc = "reject"
    /\ search_log' = RecordRejected(search_log, search_ei)
    /\ search_ret' = "x0"
    /\ search_pc' = "returned"
    /\ UNCHANGED <<search_ei, search_y0, search_exp, search_calls, mainv,
                   gaev, parsev, loggerv, sessionv, replayv, callv>>

NextSearch ==
    \/ SearchBegin
    \/ SearchTrial
    \/ SearchReject

SpecSearch == InitSearch /\ [][NextSearch]_vars

SearchKeys == <<"ExpectedImprovement", "ActualImprovement", "ImprovementRatio">>

\* line_search has returned with the three keys recorded once each, in the
\* order of the code
RecordedOnce ==
    /\ Len(search_log) = Len(SearchKeys)
    /\ \A i \in 1..Len(SearchKeys) : search_log[i].key = SearchKeys[i]

\* the recorded value of a key
Recorded(key) ==
    LET i == CHOOSE j \in 1..Len(search_log) : search_log[j].key = key
    IN search_log[i].val

\* a recorded value is > 0
RecPositive(a) == a.k \in {"dbl", "inf"} /\ a.sg = 1

\* C25 as stated: a call of line_search records ExpectedImprovement,
\* ActualImprovement and ImprovementRatio once each, when it returns; for
\* an accepted candidate the recorded ExpectedImprovement is > 0 and the
\* recorded ImprovementRatio is >= accept_ratio; when no candidate is
\* accepted ActualImprovement and ImprovementRatio are both 0
C25_Original ==
    /\ (search_pc \in {"begin", "trial", "reject"}) => (search_log = <<>>)
    /\ (search_pc = "returned") =>
          /\ RecordedOnce
          /\ IF search_ret = "x"
             THEN /\ RecPositive(Recorded("ExpectedImprovement"))
                  /\ EGe(Recorded("ImprovementRatio"), accept_ratio)
             ELSE /\ Recorded("ActualImprovement") = FZero
                  /\ Recorded("ImprovementRatio") = FZero

\* C25 (amended): a call of line_search records ExpectedImprovement,
\* ActualImprovement and ImprovementRatio once each, when it returns; for
\* an accepted candidate the recorded ExpectedImprovement is > 0 and the
\* recorded ActualImprovement is at least the float product of the
\* recorded ExpectedImprovement and accept_ratio; the recorded
\* ImprovementRatio, a rounded quotient, is at least the largest float
\* below accept_ratio when expected_improvement is finite and nan when it
\* is +inf; when no candidate is accepted ActualImprovement and
\* ImprovementRatio are both 0
C25_RecordedImprovement ==
    /\ (search_pc \in {"begin", "trial", "reject"}) => (search_log = <<>>)
    /\ (search_pc = "returned") =>
          /\ RecordedOnce
          /\ IF search_ret = "x"
             THEN /\ RecPositive(Recorded("ExpectedImprovement"))
                  /\ EGe(Recorded("ActualImprovement"),
                         EMul(Recorded("ExpectedImprovement"), accept_ratio))
                  /\ IF search_ei.k = "dbl"
                     THEN EGe(Recorded("ImprovementRatio"),
                              FPred(accept_ratio))
                     ELSE Recorded("ImprovementRatio") = FNan
             ELSE /\ Recorded("ActualImprovement") = FZero
                  /\ Recorded("ImprovementRatio") = FZero

\* C25 witness: a candidate was accepted after rejected ones and the
\* recorded ratio is the largest float below accept_ratio
C25_Witness ==
    /\ search_pc = "returned"
    /\ search_ret = "x"
    /\ search_exp >= 2
    /\ Recorded("ImprovementRatio") = FPred(accept_ratio)

\* ------------------------------------------------------------------------
\* How often line_search evaluates f
\* ------------------------------------------------------------------------
\* line_search has returned
Returned == InLineSearch /\ pc \in {"commit", "refit"}

\* C26: with y0 supplied, as trpo does, line_search evaluates f at most
\* max_backtracks times, the j-th time at the step fraction ratio^(j-1),
\* each fraction smaller than the one before; when expected_improvement is
\* below atol f is never evaluated, x0 is returned and no trial writes the
\* policy's parameters in that iteration
C26_BoundedEvaluations ==
    InLineSearch =>
        /\ Len(evals) <= max_backtracks
        /\ \A j \in 1..Len(evals) :
              /\ evals[j].exp = j - 1
              /\ RatioS(evals[j].exp) * Pow(ratio_den, j - 1)
                    = ParamScale * Pow(ratio_num, j - 1)
              /\ (j > 1) => (RatioS(evals[j].exp) < RatioS(evals[j - 1].exp))
        /\ XLt(ls.ei, Fin(atol)) =>
              /\ evals = <<>>
              /\ policy = x0start
              /\ Returned => (new_params = ls.x0 /\ ls.x0 = x0start)

\* C26 witness: a negative expected improvement, the update
\* over and the policy as it was when the iteration started
C26_Witness ==
    /\ InLineSearch
    /\ pc = "refit"
    /\ IsFin(ls.ei)
    /\ ls.ei.v < 0
    /\ evals = <<>>
    /\ policy = x0start

\* C26 witness of the other case: max_backtracks evaluations were made
C26_AllTrials ==
    /\ InLineSearch
    /\ Len(evals) = max_backtracks

====
